---------------------------- MODULE Spec2Model ----------------------------
(***************************************************************************)
(* Geometry reconstruction of the Sollumz fragment/drawable importer:      *)
(* vertex decomposition, index remapping, joining geometry blocks per      *)
(* shader, regrouping per bone group and bone-name resolution.             *)
(*                                                                         *)
(* Python lists are sequences; list indices stay 0-based as in the source, *)
(* so element i of a list xs is xs[i + 1].  A Python dict is an ordered    *)
(* dict: a sequence of [k, v] entries in insertion order.  A weight        *)
(* w / 255 is the pair <<w, 255>>.                                         *)
(***************************************************************************)
EXTENDS Integers, Sequences, FiniteSets, TLC

VARIABLES
    op,             \* the operation that produced the current state
    geometries,     \* list[GeometryItem] handed to the operation
    geom_data,      \* GeometryData being built or returned
    model_mesh,     \* vertices / polygons of ModelMeshCWXMLConverter
    vertex,         \* one raw vertex record of a vertex buffer
    vert_attrs,     \* VertexAttributes made of it
    bones,          \* skeleton.bones: list[BoneItem]
    bone_ids,       \* external bone ids of a geometry (None is the empty list)
    obj_vertex_groups,  \* names of obj.vertex_groups, in creation order
    group_parent_map,   \* bone index -> group parent bone index
    group_calls,    \* what get_vertex_data_by_group returned, per shader
    geom_data_by_group, \* group name -> GeometryData
    raised,         \* the operation ended in an IndexError
    cwxml,          \* the XML structure (or scene input) handed to a converter
    objects,        \* the objects of the scene, in creation order
    reports,        \* messages reported to the operator or the logger
    exception,      \* the exception that reached the caller, or NoException
    files,          \* names of the files written by an export
    returned        \* what the operation returned

geometry_vars == <<geometries, geom_data, model_mesh, vertex, vert_attrs,
                   bones, bone_ids, obj_vertex_groups, group_parent_map,
                   group_calls, geom_data_by_group, raised>>

converter_vars == <<cwxml, objects, reports, exception, files, returned>>

vars == <<op, geometry_vars, converter_vars>>

\* ------------------------------------------------------------------ bounds
MaxGeoms == 3       \* geometry blocks in one input list
MaxVerts == 2       \* vertices in one block's vertex buffer
MaxIndices == 4     \* entries in one block's index buffer
MaxBlendIndex == 2  \* largest bone index in a blend slot (weight decoding)
MaxRawBone == 11    \* largest raw bone index of a vertex group
MaxSkeleton == 5    \* bones in the skeleton (name resolution)
MaxBoneIds == 10    \* entries in the external bone-id list
MaxGroupBones == 4  \* bones in the skeleton of a split drawable

ShaderIndices == {0, 1}

\* ------------------------------------------------------- generic helpers
Min(a, b) == IF a < b THEN a ELSE b

RECURSIVE Concat(_)
Concat(seqs) ==
    IF seqs = <<>> THEN <<>> ELSE Head(seqs) \o Concat(Tail(seqs))

\* ----------------------------------------------------------- Python dict
EmptyDict == <<>>

DictHas(d, key) == \E n \in 1..Len(d) : d[n].k = key

DictGet(d, key) == d[CHOOSE n \in 1..Len(d) : d[n].k = key].v

\* defaultdict(list).__getitem__ as a read
DictGetList(d, key) == IF DictHas(d, key) THEN DictGet(d, key) ELSE <<>>

\* d[key] = value: a new key goes last, an old key keeps its position
DictPut(d, key, value) ==
    IF DictHas(d, key)
    THEN [n \in 1..Len(d) |->
            IF d[n].k = key THEN [k |-> key, v |-> value] ELSE d[n]]
    ELSE Append(d, [k |-> key, v |-> value])

DictKeys(d) == [n \in 1..Len(d) |-> d[n].k]

\* ------------------------------------------------ geometry_data.py
Div255(w) == <<w, 255>>

\* weights = {i: w / 255 for i, w in zip(...) if not (w == 0 and i == 0)}
RECURSIVE WeightsComprehension(_, _)
WeightsComprehension(slots, acc) ==
    IF slots = <<>> THEN acc
    ELSE LET s == Head(slots)
         IN  WeightsComprehension(Tail(slots),
                IF ~(s.w = 0 /\ s.i = 0)
                THEN DictPut(acc, s.i, Div255(s.w))
                ELSE acc)

\* VertexAttributes.from_vertex; vertex.blend is zip(blendindices,
\* blendweights), empty when the layout has no blendweights field
from_vertex(v) ==
    [position |-> v.position,
     weights  |-> WeightsComprehension(v.blend, EmptyDict)]

EmptyGeometryData ==
    [vertices |-> <<>>, faces |-> <<>>, material_indices |-> <<>>,
     vertex_groups |-> EmptyDict]

RECURSIVE AddVertexGroups(_, _, _)
AddVertexGroups(groups, weights, vert_index) ==
    IF weights = <<>> THEN groups
    ELSE LET e == Head(weights)
         IN  AddVertexGroups(
                DictPut(groups, e.k,
                        Append(DictGetList(groups, e.k), <<vert_index, e.v>>)),
                Tail(weights), vert_index)

\* GeometryData.add_vertex
add_vertex(gd, attrs) ==
    LET vert_index == Len(gd.vertices)   \* len(self.vertices) - 1 after append
    IN  [gd EXCEPT
            !.vertices = Append(@, attrs.position),
            !.vertex_groups = AddVertexGroups(@, attrs.weights, vert_index)]

BoneName(b) == <<"bone", b>>
ExternalBoneName(b) == <<"EXTERNAL_BONE", b>>
UnknownBoneName == <<"UNKNOWN_BONE">>

\* The variant that looks at the external bone ids before the skeleton.
create_vertex_groups_external_first(gd, bone_list, ids) ==
    LET bids == ids
    IN  [n \in 1..Len(gd.vertex_groups) |->
            LET bone_index == gd.vertex_groups[n].k
            IN  IF bids # <<>> /\ bone_index < Len(bids)
                THEN ExternalBoneName(bone_index)
                ELSE IF bone_list # <<>> /\ bone_index < Len(bone_list)
                THEN bone_list[bone_index + 1].name
                ELSE UnknownBoneName]

\* GeometryData.create_vertex_groups: the names of the groups it creates,
\* one per key of self.vertex_groups
create_vertex_groups(gd, bone_list, ids) ==
    LET bids == ids     \* bone_ids or []: None and [] are both falsy
    IN  [n \in 1..Len(gd.vertex_groups) |->
            LET bone_index == gd.vertex_groups[n].k
            IN  IF bone_list # <<>> /\ bone_index < Len(bone_list)
                THEN bone_list[bone_index + 1].name
                ELSE IF bids # <<>> /\ bone_index < Len(bids)
                THEN ExternalBoneName(bone_index)
                ELSE UnknownBoneName]

\* -------------------------------------------- ydr/import_cwxml/geometry.py
\* GeometryCWXMLConverter.get_vertex_components, the vertex_groups part:
\* every blend slot of every vertex is kept
RECURSIVE ComponentGroups(_, _, _)
ComponentGroups(vertices, vertex_index, groups) ==
    IF vertex_index >= Len(vertices) THEN groups
    ELSE ComponentGroups(vertices, vertex_index + 1,
            AddVertexGroups(groups,
                [s \in 1..Len(vertices[vertex_index + 1].blend) |->
                    [k |-> vertices[vertex_index + 1].blend[s].i,
                     v |-> Div255(vertices[vertex_index + 1].blend[s].w)]],
                vertex_index))

get_vertex_components(vertices) ==
    [positions |-> [n \in 1..Len(vertices) |-> vertices[n].position],
     vertex_groups |-> ComponentGroups(vertices, 0, EmptyDict)]

\* GeometryCWXMLConverter.create_vertex_groups
geometry_create_vertex_groups(components, bone_list, ids) ==
    [n \in 1..Len(components.vertex_groups) |->
        LET bone_index == components.vertex_groups[n].k
        IN  IF bone_list # <<>> /\ bone_index < Len(bone_list)
            THEN bone_list[bone_index + 1].name
            ELSE IF ids # <<>> /\ bone_index < Len(ids)
            THEN ExternalBoneName(bone_index)
            ELSE UnknownBoneName]

\* ------------------------------------------- create_drawable_mesh.py
Ceil3(n) == (n + 2) \div 3

\* split_indices: tuple(indices[i:i + 3]) for i in range(0, len(indices), 3)
split_indices(indices) ==
    [c \in 1..Ceil3(Len(indices)) |->
        SubSeq(indices, 3 * (c - 1) + 1, Min(3 * c, Len(indices)))]

OffsetIndices(indices, base) == [n \in 1..Len(indices) |-> indices[n] + base]

\* get_vertex_data_by_shader_index, the loop from geometry i on
RECURSIVE ByShaderLoop(_, _, _, _)
ByShaderLoop(geoms, i, verts_by_shader, ind_by_shader) ==
    IF i >= Len(geoms) THEN [verts |-> verts_by_shader, ind |-> ind_by_shader]
    ELSE LET geometry     == geoms[i + 1]
             shader_index == geometry.shader_index
             seen         == DictGetList(verts_by_shader, shader_index)
             index_data   == IF i > 0
                             THEN OffsetIndices(geometry.index_buffer, Len(seen))
                             ELSE geometry.index_buffer
         IN  ByShaderLoop(geoms, i + 1,
                DictPut(verts_by_shader, shader_index,
                        seen \o geometry.vertex_buffer),
                DictPut(ind_by_shader, shader_index,
                        DictGetList(ind_by_shader, shader_index) \o index_data))

\* The loop with the "if i > 0" offset of the index data left out.
RECURSIVE ByShaderLoopNoOffset(_, _, _, _)
ByShaderLoopNoOffset(geoms, i, verts_by_shader, ind_by_shader) ==
    IF i >= Len(geoms) THEN [verts |-> verts_by_shader, ind |-> ind_by_shader]
    ELSE LET geometry     == geoms[i + 1]
             shader_index == geometry.shader_index
         IN  ByShaderLoopNoOffset(geoms, i + 1,
                DictPut(verts_by_shader, shader_index,
                        DictGetList(verts_by_shader, shader_index)
                            \o geometry.vertex_buffer),
                DictPut(ind_by_shader, shader_index,
                        DictGetList(ind_by_shader, shader_index)
                            \o geometry.index_buffer))

get_vertex_data_by_shader_index_no_offset(geoms) ==
    ByShaderLoopNoOffset(geoms, 0, EmptyDict, EmptyDict)

get_vertex_data_by_shader_index(geoms) ==
    ByShaderLoop(geoms, 0, EmptyDict, EmptyDict)

RECURSIVE AddFaces(_, _, _, _)
AddFaces(gd, faces, num_verts, shader_index) ==
    IF faces = <<>> THEN gd
    ELSE AddFaces([gd EXCEPT
                      !.faces = Append(@, OffsetIndices(Head(faces), num_verts)),
                      !.material_indices = Append(@, shader_index)],
                  Tail(faces), num_verts, shader_index)

RECURSIVE AddRawVertices(_, _)
AddRawVertices(gd, verts) ==
    IF verts = <<>> THEN gd
    ELSE AddRawVertices(add_vertex(gd, from_vertex(Head(verts))), Tail(verts))

\* join_geometries, the loop over ind_by_shader.items() from entry n on
RECURSIVE JoinLoop(_, _, _)
JoinLoop(by_shader, n, gd) ==
    IF n > Len(by_shader.ind) THEN gd
    ELSE LET shader_index == by_shader.ind[n].k
             indices      == by_shader.ind[n].v
             num_verts    == Len(gd.vertices)
             with_faces   == AddFaces(gd, split_indices(indices), num_verts,
                                      shader_index)
         IN  JoinLoop(by_shader, n + 1,
                AddRawVertices(with_faces,
                               DictGetList(by_shader.verts, shader_index)))

\* The loop with the shader's vertices added before num_verts is read.
RECURSIVE JoinLoopLateCount(_, _, _)
JoinLoopLateCount(by_shader, n, gd) ==
    IF n > Len(by_shader.ind) THEN gd
    ELSE LET shader_index == by_shader.ind[n].k
             with_verts   == AddRawVertices(gd,
                                DictGetList(by_shader.verts, shader_index))
         IN  JoinLoopLateCount(by_shader, n + 1,
                AddFaces(with_verts, split_indices(by_shader.ind[n].v),
                         Len(with_verts.vertices), shader_index))

join_geometries_late_count(geoms) ==
    JoinLoopLateCount(get_vertex_data_by_shader_index(geoms), 1,
                      EmptyGeometryData)

join_geometries(geoms) ==
    JoinLoop(get_vertex_data_by_shader_index(geoms), 1, EmptyGeometryData)

\* get_joined_vertex_data, the loop from geometry g on
RECURSIVE JoinedVertexLoop(_, _, _, _)
JoinedVertexLoop(geoms, g, vertices, indices) ==
    IF g > Len(geoms) THEN [vertices |-> vertices, indices |-> indices]
    ELSE JoinedVertexLoop(geoms, g + 1,
            vertices \o [n \in 1..Len(geoms[g].vertex_buffer) |->
                            from_vertex(geoms[g].vertex_buffer[n])],
            indices \o OffsetIndices(geoms[g].index_buffer, Len(vertices)))

get_joined_vertex_data(geoms) == JoinedVertexLoop(geoms, 1, <<>>, <<>>)

\* get_root_bone_parent_index
RECURSIVE get_root_bone_parent_index(_, _)
get_root_bone_parent_index(bone_index, bone_list) ==
    IF bone_list[bone_index + 1].parent_index > 0
    THEN get_root_bone_parent_index(bone_list[bone_index + 1].parent_index,
                                    bone_list)
    ELSE bone_index

\* find_common_root_bone_parent, the loop from entry n on
RECURSIVE CommonRootLoop(_, _, _, _, _)
CommonRootLoop(bone_indices, bone_list, n, last_root_parent_index, result) ==
    IF n > Len(bone_indices) THEN result
    ELSE LET root_parent_index ==
                get_root_bone_parent_index(bone_indices[n], bone_list)
         IN  IF last_root_parent_index = -1
             THEN CommonRootLoop(bone_indices, bone_list, n + 1,
                                 root_parent_index, root_parent_index)
             ELSE IF last_root_parent_index # root_parent_index
             THEN 0
             ELSE CommonRootLoop(bone_indices, bone_list, n + 1,
                                 last_root_parent_index, root_parent_index)

\* bone_indices is never empty here: a key of group_relations is made
\* only where a bone is appended to its list
find_common_root_bone_parent(bone_indices, bone_list) ==
    CommonRootLoop(bone_indices, bone_list, 1, -1, -1)

\* The (face, bone_index) pairs the three nested loops of
\* get_group_parent_map visit, in order.
FaceBoneVisits(faces, vertices) ==
    Concat([f \in 1..Len(faces) |->
        Concat([m \in 1..Len(faces[f]) |->
            [w \in 1..Len(vertices[faces[f][m] + 1].weights) |->
                [face |-> faces[f],
                 bone_index |-> vertices[faces[f][m] + 1].weights[w].k]]])])

SeqHas(xs, x) == \E n \in 1..Len(xs) : xs[n] = x

\* get_group_parent_map, the body of the innermost loop from visit n on
RECURSIVE RelationsLoop(_, _, _, _)
RelationsLoop(visits, n, group_by_face, group_relations) ==
    IF n > Len(visits) THEN group_relations
    ELSE LET face       == visits[n].face
             bone_index == visits[n].bone_index
         IN  IF ~DictHas(group_by_face, face)
             THEN RelationsLoop(visits, n + 1,
                      DictPut(group_by_face, face, bone_index), group_relations)
             ELSE IF DictGet(group_by_face, face) = bone_index
             THEN RelationsLoop(visits, n + 1, group_by_face, group_relations)
             ELSE IF SeqHas(DictGetList(group_relations, bone_index),
                            DictGet(group_by_face, face))
             THEN RelationsLoop(visits, n + 1, group_by_face, group_relations)
             ELSE RelationsLoop(visits, n + 1, group_by_face,
                      DictPut(group_relations, bone_index,
                          Append(DictGetList(group_relations, bone_index),
                                 DictGet(group_by_face, face))))

get_group_parent_map(geoms, bone_list) ==
    LET joined    == get_joined_vertex_data(geoms)
        faces     == split_indices(joined.indices)
        relations == RelationsLoop(FaceBoneVisits(faces, joined.vertices), 1,
                                   EmptyDict, EmptyDict)
    IN  [n \in 1..Len(relations) |->
            [k |-> relations[n].k,
             v |-> find_common_root_bone_parent(relations[n].v, bone_list)]]

IndexError == <<"IndexError">>

\* The first weighted bone that has an entry in the parent map, or -1.
RECURSIVE FirstMappedBone(_, _, _)
FirstMappedBone(weights, parent_map, n) ==
    IF n > Len(weights) THEN -1
    ELSE IF DictHas(parent_map, weights[n].k) THEN weights[n].k
    ELSE FirstMappedBone(weights, parent_map, n + 1)

\* get_object_group_name; list(...)[0] and bones[...] raise IndexError
get_object_group_name(attrs, bone_list, parent_map) ==
    LET mapped == IF parent_map # EmptyDict
                  THEN FirstMappedBone(attrs.weights, parent_map, 1)
                  ELSE -1
    IN  IF mapped # -1
        THEN bone_list[DictGet(parent_map, mapped) + 1].name
        ELSE IF attrs.weights = EmptyDict THEN IndexError
        ELSE IF attrs.weights[1].k >= Len(bone_list) THEN IndexError
        ELSE bone_list[attrs.weights[1].k + 1].name

EmptyGroupCall ==
    [verts_by_group |-> EmptyDict, ind_by_group |-> EmptyDict,
     vert_indices |-> EmptyDict, names |-> <<>>, raised |-> FALSE]

\* The loop that appends every referenced vertex again, with no look-up
\* of the vertices the group already holds.
RECURSIVE ByGroupLoopNoDedup(_, _, _, _, _, _)
ByGroupLoopNoDedup(indices, vertices, bone_list, parent_map, n, acc) ==
    IF n > Len(indices) THEN acc
    ELSE LET i          == indices[n]
             attrs      == from_vertex(vertices[i + 1])
             group_name == get_object_group_name(attrs, bone_list, parent_map)
             group_verts == Append(DictGetList(acc.verts_by_group, group_name),
                                   attrs)
         IN  IF group_name = IndexError
             THEN [acc EXCEPT !.raised = TRUE,
                              !.names = Append(@, group_name)]
             ELSE ByGroupLoopNoDedup(indices, vertices, bone_list, parent_map,
                    n + 1,
                    [acc EXCEPT
                        !.names = Append(@, group_name),
                        !.verts_by_group = DictPut(@, group_name, group_verts),
                        !.ind_by_group = DictPut(@, group_name,
                            Append(DictGetList(@, group_name),
                                   Len(group_verts) - 1))])

get_vertex_data_by_group_no_dedup(indices, vertices, bone_list, parent_map) ==
    ByGroupLoopNoDedup(indices, vertices, bone_list, parent_map, 1,
                       EmptyGroupCall)

\* get_vertex_data_by_group, the loop from index n on
RECURSIVE ByGroupLoop(_, _, _, _, _, _)
ByGroupLoop(indices, vertices, bone_list, parent_map, n, acc) ==
    IF n > Len(indices) THEN acc
    ELSE LET i          == indices[n]
             attrs      == from_vertex(vertices[i + 1])
             group_name == get_object_group_name(attrs, bone_list, parent_map)
             old_map    == DictGetList(acc.vert_indices, group_name)
             is_new     == ~DictHas(old_map, i)
             group_verts == IF is_new
                            THEN Append(DictGetList(acc.verts_by_group,
                                                    group_name), attrs)
                            ELSE DictGetList(acc.verts_by_group, group_name)
             new_map    == IF is_new
                           THEN DictPut(old_map, i, Len(group_verts) - 1)
                           ELSE old_map
         IN  IF group_name = IndexError
             THEN [acc EXCEPT !.raised = TRUE,
                              !.names = Append(@, group_name)]
             ELSE ByGroupLoop(indices, vertices, bone_list, parent_map, n + 1,
                    [acc EXCEPT
                        !.names = Append(@, group_name),
                        !.vert_indices = DictPut(@, group_name, new_map),
                        !.verts_by_group =
                            IF is_new THEN DictPut(@, group_name, group_verts)
                            ELSE @,
                        !.ind_by_group = DictPut(@, group_name,
                            Append(DictGetList(@, group_name),
                                   DictGet(new_map, i)))])

get_vertex_data_by_group(indices, vertices, bone_list, parent_map) ==
    ByGroupLoop(indices, vertices, bone_list, parent_map, 1, EmptyGroupCall)

RECURSIVE AddVertices(_, _)
AddVertices(gd, verts) ==
    IF verts = <<>> THEN gd
    ELSE AddVertices(add_vertex(gd, Head(verts)), Tail(verts))

\* create_grouped_geometry_data, the loop over verts_by_group.items() from
\* entry n on
RECURSIVE GroupItemsLoop(_, _, _, _)
GroupItemsLoop(call, shader_index, n, data) ==
    IF n > Len(call.verts_by_group) THEN data
    ELSE LET group_name == call.verts_by_group[n].k
             verts      == call.verts_by_group[n].v
             geom       == IF DictHas(data, group_name)
                           THEN DictGet(data, group_name)
                           ELSE EmptyGeometryData
             num_verts  == Len(geom.vertices)
             with_faces == AddFaces(geom,
                              split_indices(DictGet(call.ind_by_group,
                                                    group_name)),
                              num_verts, shader_index)
         IN  GroupItemsLoop(call, shader_index, n + 1,
                DictPut(data, group_name, AddVertices(with_faces, verts)))

\* create_grouped_geometry_data, the loop over ind_by_shader.items() from
\* entry n on; an IndexError in get_vertex_data_by_group ends it
RECURSIVE GroupedLoop(_, _, _, _, _)
GroupedLoop(by_shader, bone_list, parent_map, n, acc) ==
    IF n > Len(by_shader.ind) THEN acc
    ELSE LET shader_index == by_shader.ind[n].k
             indices      == by_shader.ind[n].v
             vertices     == DictGetList(by_shader.verts, shader_index)
             call         == get_vertex_data_by_group(indices, vertices,
                                                      bone_list, parent_map)
             made         == [shader_index |-> shader_index,
                              indices |-> indices, vertices |-> vertices,
                              names |-> call.names,
                              verts_by_group |-> call.verts_by_group,
                              ind_by_group |-> call.ind_by_group,
                              raised |-> call.raised]
         IN  IF call.raised
             THEN [data |-> EmptyDict, calls |-> Append(acc.calls, made),
                   raised |-> TRUE]
             ELSE GroupedLoop(by_shader, bone_list, parent_map, n + 1,
                    [data |-> GroupItemsLoop(call, shader_index, 1, acc.data),
                     calls |-> Append(acc.calls, made),
                     raised |-> FALSE])

create_grouped_geometry_data(geoms, bone_list, parent_map) ==
    GroupedLoop(get_vertex_data_by_shader_index(geoms), bone_list, parent_map,
                1, [data |-> EmptyDict, calls |-> <<>>, raised |-> FALSE])

\* ------------------------------------------------ ydr/import_cwxml/model.py
Range0(from, to) == [n \in 1..(to - from) |-> from + n - 1]

\* ModelMeshCWXMLConverter.get_vertices_polygons, the loop from geometry i on
RECURSIVE PolygonsLoop(_, _, _)
PolygonsLoop(geoms, i, acc) ==
    IF i >= Len(geoms) THEN acc
    ELSE LET geometry     == geoms[i + 1]
             shader_index == geometry.shader_index
             indices      == IF i > 0
                             THEN OffsetIndices(geometry.index_buffer,
                                                Len(acc.vertices))
                             ELSE geometry.index_buffer
             polygons     == split_indices(indices)
             poly_indices == Range0(Len(acc.polygons),
                                    Len(polygons) + Len(acc.polygons))
         IN  PolygonsLoop(geoms, i + 1,
                [vertices |-> acc.vertices \o geometry.vertex_buffer,
                 polygons |-> acc.polygons \o polygons,
                 poly_materials |->
                    DictPut(acc.poly_materials, shader_index,
                            DictGetList(acc.poly_materials, shader_index)
                                \o poly_indices)])

EmptyModelMesh ==
    [vertices |-> <<>>, polygons |-> <<>>, poly_materials |-> EmptyDict]

get_vertices_polygons(geoms) == PolygonsLoop(geoms, 0, EmptyModelMesh)

\* ------------------------------------------------------------ input blocks
NoBlend == [i |-> 0, w |-> 0]

\* The vertex at local index l of the block at list position j (0-based):
\* its position names it, its first blend slot carries one bone.
RawVertex(j, l) ==
    [position |-> <<j, l>>,
     blend    |-> <<[i |-> (j + l) % 3, w |-> 255], NoBlend, NoBlend, NoBlend>>]

IndexLengths == {0, 3, MaxIndices}

\* A GeometryItem: vertex buffer, index buffer (every index below the
\* block's vertex count) and shader index.
GeometryItem(j, nverts, nindices, shader_index) ==
    [vertex_buffer |-> [l \in 1..nverts |-> RawVertex(j, l - 1)],
     index_buffer  |-> [n \in 1..nindices |-> (n - 1) % nverts],
     shader_index  |-> shader_index]

\* A skeleton of n bones in one chain under the root.
ChainSkeleton(n) ==
    [b \in 1..n |-> [name |-> BoneName(b - 1), parent_index |-> b - 2]]

NoVertex == [position |-> <<>>, blend |-> <<>>]

\* The state of the parts an operation does not touch.
IdleJoin ==
    /\ geometries = <<>>
    /\ model_mesh = EmptyModelMesh

IdleWeights ==
    /\ vertex = NoVertex
    /\ vert_attrs = from_vertex(NoVertex)

IdleResolve ==
    /\ bones = <<>>
    /\ bone_ids = <<>>
    /\ obj_vertex_groups = <<>>

IdleGroup ==
    /\ group_parent_map = EmptyDict
    /\ group_calls = <<>>
    /\ geom_data_by_group = EmptyDict
    /\ raised = FALSE

NoException == "None"

IdleConverter ==
    /\ cwxml = <<>>
    /\ objects = <<>>
    /\ reports = <<>>
    /\ exception = NoException
    /\ files = <<>>
    /\ returned = <<>>

\* no geometry is being reconstructed
IdleGeometry ==
    /\ IdleJoin
    /\ geom_data = EmptyGeometryData
    /\ IdleWeights
    /\ IdleResolve
    /\ IdleGroup

\* ------------------------------------------------------------- join spec
InitJoin ==
    /\ op = "input"
    /\ \E len \in 1..MaxGeoms :
         \E nv \in [1..len -> 1..MaxVerts],
            ni \in [1..len -> IndexLengths],
            sh \in [1..len -> ShaderIndices] :
            geometries = [j \in 1..len |->
                            GeometryItem(j - 1, nv[j], ni[j], sh[j])]
    /\ geom_data = EmptyGeometryData
    /\ model_mesh = EmptyModelMesh
    /\ IdleWeights
    /\ IdleResolve
    /\ IdleGroup
    /\ IdleConverter

JoinGeometries ==
    /\ op = "input"
    /\ op' = "join_geometries"
    /\ geom_data' = join_geometries(geometries)
    /\ UNCHANGED <<geometries, model_mesh, vertex, vert_attrs, bones,
                   bone_ids, obj_vertex_groups, group_parent_map,
                   group_calls, geom_data_by_group, raised>>
    /\ UNCHANGED converter_vars

GetVerticesPolygons ==
    /\ op = "input"
    /\ op' = "get_vertices_polygons"
    /\ model_mesh' = get_vertices_polygons(geometries)
    /\ UNCHANGED <<geometries, geom_data, vertex, vert_attrs, bones,
                   bone_ids, obj_vertex_groups, group_parent_map,
                   group_calls, geom_data_by_group, raised>>
    /\ UNCHANGED converter_vars

NextJoin == JoinGeometries \/ GetVerticesPolygons

SpecJoin == InitJoin /\ [][NextJoin]_vars

\* ---------------------------------------------------------- weights spec
WeightBytes == {0, 127, 255}

BlendSlots == [i : 0..MaxBlendIndex, w : WeightBytes]

InitWeights ==
    /\ op = "input"
    /\ \E blend \in [1..4 -> BlendSlots] :
         vertex = [position |-> <<0, 0>>, blend |-> blend]
    /\ vert_attrs = from_vertex(NoVertex)
    /\ geom_data = EmptyGeometryData
    /\ IdleJoin
    /\ IdleResolve
    /\ IdleGroup
    /\ IdleConverter

FromVertex ==
    /\ op = "input"
    /\ op' = "from_vertex"
    /\ vert_attrs' = from_vertex(vertex)
    /\ UNCHANGED <<geometries, geom_data, model_mesh, vertex, bones, bone_ids,
                   obj_vertex_groups, group_parent_map, group_calls,
                   geom_data_by_group, raised>>
    /\ UNCHANGED converter_vars

AddVertex ==
    /\ op = "from_vertex"
    /\ op' = "add_vertex"
    /\ geom_data' = add_vertex(geom_data, vert_attrs)
    /\ UNCHANGED <<geometries, model_mesh, vertex, vert_attrs, bones, bone_ids,
                   obj_vertex_groups, group_parent_map, group_calls,
                   geom_data_by_group, raised>>
    /\ UNCHANGED converter_vars

NextWeights == FromVertex \/ AddVertex

SpecWeights == InitWeights /\ [][NextWeights]_vars

\* ---------------------------------------------------------- resolve spec
\* A vertex weighted to the raw bone indices b1 and b2.
TwoBoneVertex(b1, b2) ==
    [position |-> <<0, 0>>,
     blend |-> <<[i |-> b1, w |-> 128], [i |-> b2, w |-> 127], NoBlend, NoBlend>>]

InitResolve ==
    /\ op = "input"
    /\ \E b1 \in 0..MaxRawBone, b2 \in 0..MaxRawBone :
         /\ vertex = TwoBoneVertex(b1, b2)
         /\ geom_data = add_vertex(EmptyGeometryData,
                                   from_vertex(TwoBoneVertex(b1, b2)))
    /\ vert_attrs = from_vertex(NoVertex)
    /\ \E n \in 0..MaxSkeleton : bones = ChainSkeleton(n)
    /\ \E n \in 0..MaxBoneIds : bone_ids = [e \in 1..n |-> 100 + e]
    /\ obj_vertex_groups = <<>>
    /\ IdleJoin
    /\ IdleGroup
    /\ IdleConverter

CreateVertexGroups ==
    /\ op = "input"
    /\ op' = "create_vertex_groups"
    /\ obj_vertex_groups' = create_vertex_groups(geom_data, bones, bone_ids)
    /\ UNCHANGED <<geometries, geom_data, model_mesh, vertex, vert_attrs,
                   bones, bone_ids, group_parent_map, group_calls,
                   geom_data_by_group, raised>>
    /\ UNCHANGED converter_vars

GeometryCreateVertexGroups ==
    /\ op = "input"
    /\ op' = "geometry_create_vertex_groups"
    /\ obj_vertex_groups' =
            geometry_create_vertex_groups(get_vertex_components(<<vertex>>),
                                          bones, bone_ids)
    /\ UNCHANGED <<geometries, geom_data, model_mesh, vertex, vert_attrs,
                   bones, bone_ids, group_parent_map, group_calls,
                   geom_data_by_group, raised>>
    /\ UNCHANGED converter_vars

NextResolve == CreateVertexGroups \/ GeometryCreateVertexGroups

SpecResolve == InitResolve /\ [][NextResolve]_vars

\* ------------------------------------------------------------ group spec
\* Skeletons of MaxGroupBones bones: bone 0 is the root, every other
\* bone's parent is a bone that comes before it.
ParentArrays ==
    {p \in [1..MaxGroupBones -> -1..(MaxGroupBones - 2)] :
        /\ p[1] = -1
        /\ \A b \in 2..MaxGroupBones : p[b] >= 0 /\ p[b] < b - 1}

Skeleton(p) ==
    [b \in 1..Len(p) |-> [name |-> BoneName(b - 1), parent_index |-> p[b]]]

\* The weighted bones of a vertex, in blend-slot order: one bone, two
\* bones given against their numeric order, or none.
WeightedBones == {<<0>>, <<1>>, <<2>>, <<3>>, <<2, 1>>, <<>>}

SkinnedVertex(j, l, weighted) ==
    [position |-> <<j, l>>,
     blend |-> [s \in 1..4 |->
                  IF s > Len(weighted) THEN NoBlend
                  ELSE [i |-> weighted[s],
                        w |-> IF Len(weighted) = 1 THEN 255 ELSE 129 - s]]]

\* A second triangle over the three vertices of a block, or none.
SecondFaces == {<<>>, <<0, 1, 2>>, <<1, 2, 0>>, <<2, 0, 1>>, <<0, 0, 1>>}

\* A block of three vertices weighted as in layout
SkinnedGeometry(j, layout, indices, shader_index) ==
    [vertex_buffer |-> [l \in 1..3 |-> SkinnedVertex(j, l - 1, layout[l])],
     index_buffer  |-> indices,
     shader_index  |-> shader_index]

\* The skinned geometries of the HIGH level of detail: the triangles in
\* one block, or the second triangle in a block of its own.
SkinnedGeometries(layout, second, blocks, shader_index) ==
    IF second = <<>> \/ blocks = 1
    THEN <<SkinnedGeometry(0, layout, <<0, 1, 2>> \o second, 0)>>
    ELSE <<SkinnedGeometry(0, layout, <<0, 1, 2>>, 0),
           SkinnedGeometry(1, layout, second, shader_index)>>

InitGroup ==
    /\ op = "input"
    /\ \E layout \in [1..3 -> WeightedBones], second \in SecondFaces,
          blocks \in 1..2, sh \in ShaderIndices :
         /\ second = <<>> => blocks = 1
         /\ blocks = 1 => sh = 0
         /\ geometries = SkinnedGeometries(layout, second, blocks, sh)
    /\ \/ bones = <<>>
       \/ \E p \in ParentArrays : bones = Skeleton(p)
    /\ geom_data = EmptyGeometryData
    /\ bone_ids = <<>>
    /\ obj_vertex_groups = <<>>
    /\ model_mesh = EmptyModelMesh
    /\ IdleWeights
    /\ IdleGroup
    /\ IdleConverter

\* get_split_geom_data for a drawable whose skinned geometries all
\* belong to the HIGH level of detail
GetSplitGeomData ==
    /\ op = "input"
    /\ op' = "get_split_geom_data"
    /\ IF bones = <<>>
       THEN UNCHANGED <<group_parent_map, group_calls, geom_data_by_group,
                        raised>>
       ELSE LET parent_map == get_group_parent_map(geometries, bones)
                grouped    == create_grouped_geometry_data(geometries, bones,
                                                           parent_map)
            IN  /\ group_parent_map' = parent_map
                /\ group_calls' = grouped.calls
                /\ geom_data_by_group' = grouped.data
                /\ raised' = grouped.raised
    /\ UNCHANGED <<geometries, geom_data, model_mesh, vertex, vert_attrs,
                   bones, bone_ids, obj_vertex_groups>>
    /\ UNCHANGED converter_vars

NextGroup == GetSplitGeomData

SpecGroup == InitGroup /\ [][NextGroup]_vars

\* ------------------------------------------------------- converter helpers
\* Python's None next to object references and matrices (both tuples)
None == <<>>

\* an object of the scene is referred to by <<its position in objects>>
Ref(n) == <<n>>

Deref(objs, ref) == objs[ref[1]]

\* tools.utils.get_list_item: the item at a 0-based index, None off the list
get_list_item(list, index) ==
    IF 0 <= index /\ index < Len(list) THEN list[index + 1] ELSE None

\* tools.blenderhelper.create_sollumz_object: a new object without parent
create_sollumz_object(self, sollum_type, name) ==
    [self EXCEPT !.objects = Append(@, [sollum_type |-> sollum_type,
                                        name |-> name,
                                        parent |-> None])]

\* the object created last
LastObject(self) == Ref(Len(self.objects))

\* obj.parent = parent
SetParent(self, obj, parent) ==
    [self EXCEPT !.objects[obj[1]].parent = parent]

\* import_operator.report({level}, message) and logger.warning(message)
Report(self, level, message) ==
    [self EXCEPT !.reports = Append(@, <<level, message>>)]

\* calling a class with nargs arguments when __init__ takes nparams
\* required parameters (self aside)
Construct(nargs, nparams) ==
    IF nargs = nparams THEN NoException ELSE "TypeError"

Raise(self, exc) == [self EXCEPT !.exception = exc]

\* ------------------------------------------ yft/import_cwxml/physicslod.py
ROOT_PARENT_INDEX == 255

\* parameters of PhysicsGroupCWXMLConverter.__init__ and of
\* PhysicsChildCWXMLConverter.__init__
PhysicsGroupParams == 3
PhysicsChildParams == 3

\* PhysicsLodCWXMLConverter.__init__
PhysicsLodCWXMLConverter(objs, reps) ==
    [objects |-> objs, reports |-> reps, exception |-> NoException,
     groups |-> <<>>, bpy_object |-> None]

\* returns the parent and the converter (a warning may have been reported)
get_physics_group_parent(self, group_cwxml) ==
    LET parent_index == group_cwxml.parent_index
        parent == get_list_item(self.groups, parent_index)
    IN  IF parent_index = ROOT_PARENT_INDEX
        THEN [parent |-> self.bpy_object, self |-> self]
        ELSE IF parent # None
        THEN [parent |-> parent, self |-> self]
        ELSE [parent |-> self.bpy_object,
              self |-> Report(self, "WARNING",
                              <<"group parent not found", group_cwxml.name>>)]

create_and_parent_group(self, group_cwxml) ==
    LET failure == Construct(1, PhysicsGroupParams)
        created == create_sollumz_object(self, "FRAGGROUP", group_cwxml.name)
        physics_group == LastObject(created)
        found == get_physics_group_parent(created, group_cwxml)
    IN  IF failure # NoException
        THEN Raise(self, failure)
        ELSE [SetParent(found.self, physics_group, found.parent)
                EXCEPT !.groups = Append(@, physics_group)]

create_and_parent_child(self, child_cwxml, index) ==
    LET group == get_list_item(self.groups, child_cwxml.group_index)
        failure == Construct(3, PhysicsChildParams)
        created == create_sollumz_object(self, "FRAGCHILD", <<"child", index>>)
    IN  IF group = None
        THEN Report(self, "WARNING",
                    <<"fragment group not found", child_cwxml.group_index>>)
        ELSE IF failure # NoException
        THEN Raise(self, failure)
        ELSE SetParent(created, LastObject(created), group)

\* A loop binds the state it is handed with `self \in {...}`: the state is
\* worked out once per round, not once per use.
RECURSIVE LodGroupsLoop(_, _, _)
LodGroupsLoop(converter, groups, n) ==
    CHOOSE done \in
      {IF n > Len(groups) \/ self.exception # NoException
       THEN self
       ELSE LodGroupsLoop(create_and_parent_group(self, groups[n]),
                          groups, n + 1) : self \in {converter}} : TRUE

RECURSIVE LodChildrenLoop(_, _, _)
LodChildrenLoop(converter, children, n) ==
    CHOOSE done \in
      {IF n > Len(children) \/ self.exception # NoException
       THEN self
       ELSE LodChildrenLoop(
              create_and_parent_child(self, children[n], n - 1),
              children, n + 1) : self \in {converter}} : TRUE

\* PhysicsLodCWXMLConverter.create_bpy_object: the converter afterwards and
\* what it returned
PhysicsLod_create_bpy_object(self, lod_cwxml) ==
    IF ~lod_cwxml.has_bounds
    THEN [self |-> Report(self, "WARNING",
                          <<"archetype is empty", lod_cwxml.tag_name>>),
          returned |-> None]
    ELSE LET created == create_sollumz_object(self, "FRAGLOD",
                                              lod_cwxml.tag_name)
             lod == [created EXCEPT !.bpy_object = LastObject(created)]
             grouped == LodGroupsLoop(lod, lod_cwxml.groups, 1)
         IN  CHOOSE call \in
               {[self |-> done,
                 returned |-> IF done.exception = NoException
                              THEN done.bpy_object ELSE None] :
                  done \in {LodChildrenLoop(grouped, lod_cwxml.children, 1)}} :
               TRUE

\* -------------------------------------------------------- physics LOD spec
MaxLodGroups == 2    \* groups in one physics LOD
MaxLodChildren == 2  \* children in one physics LOD

ParentIndices == 0..MaxLodGroups \cup {ROOT_PARENT_INDEX}
GroupIndices == 0..MaxLodGroups

GroupItem(k, parent_index) ==
    [name |-> <<"group", k>>, parent_index |-> parent_index]

ChildrenItem(group_index) == [group_index |-> group_index]

LODProperty(tag_name, has_bounds, groups, children) ==
    [tag_name |-> tag_name, has_bounds |-> has_bounds, groups |-> groups,
     children |-> children]

InitLod ==
    /\ op = "input"
    /\ \E ng \in 0..MaxLodGroups, nc \in 0..MaxLodChildren,
          has_bounds \in BOOLEAN :
         \E parent_index \in [1..ng -> ParentIndices],
            group_index \in [1..nc -> GroupIndices] :
            cwxml = LODProperty(
                      <<"LOD", 1>>, has_bounds,
                      [k \in 1..ng |-> GroupItem(k - 1, parent_index[k])],
                      [c \in 1..nc |-> ChildrenItem(group_index[c])])
    /\ objects = <<>>
    /\ reports = <<>>
    /\ exception = NoException
    /\ files = <<>>
    /\ returned = <<>>
    /\ IdleGeometry

\* PhysicsLodCWXMLConverter(lod_cwxml, materials).create_bpy_object(0)
CreatePhysicsLod ==
    /\ op = "input"
    /\ op' = "PhysicsLod.create_bpy_object"
    /\ LET call == PhysicsLod_create_bpy_object(
                     PhysicsLodCWXMLConverter(objects, reports), cwxml)
       IN  /\ objects' = call.self.objects
           /\ reports' = call.self.reports
           /\ exception' = call.self.exception
           /\ returned' = [returned |-> call.returned,
                         groups |-> call.self.groups]
    /\ UNCHANGED <<cwxml, files>>
    /\ UNCHANGED geometry_vars

NextLod == CreatePhysicsLod

SpecLod == InitLod /\ [][NextLod]_vars

\* --------------------------------------------------- child transforms
\* mathutils.Matrix: a 4x4 matrix is the tuple of its four rows; entry
\* m[r][c] of the source is m[r + 1][c + 1].  Entries are integers, so the
\* rounding of the float additions is left out.
\* Matrix()
Identity == [r \in 1..4 |-> [c \in 1..4 |-> IF r = c THEN 1 ELSE 0]]

\* Matrix.transposed()
transposed(m) == [r \in 1..4 |-> [c \in 1..4 |-> m[c][r]]]

\* transform[3][0] = a; transform[3][1] = b; transform[3][2] = c
WithTranslation(transform, a, b, c) ==
    [transform EXCEPT ![4] = <<a, b, c, transform[4][4]>>]

\* what a function that assigns into the stored matrix leaves behind
TransformCall(value, stored, exc) ==
    [returned |-> value, transforms |-> stored, exception |-> exc]

\* PhysicsLodCWXMLConverter.get_child_transform, with the transposition
\* left out
get_child_transform_untransposed(lod_cwxml, child_index) ==
    LET transform == get_list_item(lod_cwxml.transforms, child_index)
        position_offset == lod_cwxml.position_offset
        a == transform[4][1] + position_offset[1]
        b == transform[4][2] + position_offset[2]
        c == transform[4][3] + position_offset[3]
        moved == WithTranslation(transform, a, b, c)
    IN  IF transform = None
        THEN TransformCall(Identity, lod_cwxml.transforms, NoException)
        ELSE TransformCall(moved,
                           [lod_cwxml.transforms
                              EXCEPT ![child_index + 1] = moved],
                           NoException)

\* PhysicsLodCWXMLConverter.get_child_transform
get_child_transform(lod_cwxml, child_index) ==
    LET transform == get_list_item(lod_cwxml.transforms, child_index)
        position_offset == lod_cwxml.position_offset
        a == transform[4][1] + position_offset[1]
        b == transform[4][2] + position_offset[2]
        c == transform[4][3] + position_offset[3]
        moved == WithTranslation(transform, a, b, c)
    IN  IF transform = None
        THEN TransformCall(Identity, lod_cwxml.transforms, NoException)
        ELSE TransformCall(transposed(moved),
                           [lod_cwxml.transforms
                              EXCEPT ![child_index + 1] = moved],
                           NoException)

\* list[index] of Python: a negative index counts from the end
ListPosition(list, index) ==
    IF index < 0 THEN Len(list) + index + 1 ELSE index + 1

\* yftimport.get_child_transforms
get_child_transforms(lod_xml, child_index) ==
    LET n == ListPosition(lod_xml.transforms, child_index)
        transform == lod_xml.transforms[n]
        a == transform[4][1] + lod_xml.position_offset[1]
        b == transform[4][2] + lod_xml.position_offset[2]
        c == transform[4][3] + lod_xml.position_offset[3]
        moved == WithTranslation(transform, a, b, c)
    IN  IF n < 1 \/ n > Len(lod_xml.transforms)
        THEN TransformCall(None, lod_xml.transforms, "IndexError")
        ELSE TransformCall(transposed(moved),
                           [lod_xml.transforms EXCEPT ![n] = moved],
                           NoException)

\* ---------------------------------------------------- child transform spec
MaxTransforms == 2   \* stored transforms of one physics LOD
MaxOffset == 1       \* largest component of position_offset

\* stored matrices with sixteen different entries
StoredBases == {0, 20}

StoredMatrix(base) ==
    [r \in 1..4 |-> [c \in 1..4 |-> base + 4 * (r - 1) + c]]

Offsets == (0 - MaxOffset)..MaxOffset

InitTransform ==
    /\ op = "input"
    /\ \E n \in 0..MaxTransforms, x \in Offsets, y \in Offsets, z \in Offsets,
          child_index \in 0..MaxTransforms :
         \E base \in [1..n -> StoredBases] :
            cwxml = [transforms |-> [k \in 1..n |-> StoredMatrix(base[k])],
                     position_offset |-> <<x, y, z>>,
                     child_index |-> child_index]
    /\ objects = <<>>
    /\ reports = <<>>
    /\ exception = NoException
    /\ files = <<>>
    /\ returned = <<>>
    /\ IdleGeometry

\* self.get_child_transform(index) of the converter
GetChildTransform ==
    /\ op = "input"
    /\ op' = "get_child_transform"
    /\ LET call == get_child_transform(cwxml, cwxml.child_index)
       IN  /\ returned' = call.returned
           /\ cwxml' = [cwxml EXCEPT !.transforms = call.transforms]
           /\ exception' = call.exception
    /\ UNCHANGED <<objects, reports, files>>
    /\ UNCHANGED geometry_vars

\* get_child_transforms(lod_xml, child_index) of yftimport
GetChildTransforms ==
    /\ op = "input"
    /\ op' = "get_child_transforms"
    /\ LET call == get_child_transforms(cwxml, cwxml.child_index)
       IN  /\ returned' = call.returned
           /\ cwxml' = [cwxml EXCEPT !.transforms = call.transforms]
           /\ exception' = call.exception
    /\ UNCHANGED <<objects, reports, files>>
    /\ UNCHANGED geometry_vars

NextTransform == GetChildTransform \/ GetChildTransforms

SpecTransform == InitTransform /\ [][NextTransform]_vars

\* ------------------------------------------- yft/import_cwxml/fragment.py
\* parameters of PhysicsLodCWXMLConverter.__init__ and of
\* WindowCWXMLConverter.__init__
PhysicsLodParams == 2
WindowParams == 3

\* the state of an import: the scene, the reports, the exception on its
\* way to the caller, the stages completed and the fragment object
Importer ==
    [objects |-> <<>>, reports |-> <<>>, exception |-> NoException,
     stages |-> <<>>, bpy_object |-> None]

Completed(self, stage) == [self EXCEPT !.stages = Append(@, stage)]

\* what a converter working in the same scene left behind
Adopt(self, converter) ==
    [self EXCEPT !.objects = converter.objects,
                 !.reports = converter.reports,
                 !.exception = converter.exception]

\* SkeletonCWXMLConverter.create_bpy_object, set_fragment_properties,
\* create_materials and get_grouped_geometries of a fragment whose
\* drawable holds no geometry
create_fragment_armature(self, fragment_cwxml) ==
    LET created == create_sollumz_object(self, "FRAGMENT", fragment_cwxml.name)
    IN  Completed([created EXCEPT !.bpy_object = LastObject(created)],
                  <<"drawable">>)

\* FragmentCWXMLConverter.create_physics_lod: the importer afterwards and
\* the groups returned
create_physics_lod(self, lod_cwxml, index) ==
    LET failure == Construct(4, PhysicsLodParams)
    IN  IF failure # NoException
        THEN [self |-> Raise(self, failure), groups |-> <<>>]
        ELSE CHOOSE lod \in
               {IF call.self.exception # NoException
                THEN [self |-> Adopt(self, call.self), groups |-> <<>>]
                ELSE IF call.returned = None
                THEN [self |-> Raise(Adopt(self, call.self),
                                     "AttributeError"),
                      groups |-> <<>>]
                ELSE [self |-> SetParent(Adopt(self, call.self),
                                         call.returned, self.bpy_object),
                      groups |-> call.self.groups] :
                  call \in {PhysicsLod_create_bpy_object(
                              PhysicsLodCWXMLConverter(self.objects,
                                                       self.reports),
                              lod_cwxml)}} : TRUE

create_window(self, window_cwxml, window_group) ==
    LET failure == Construct(3, WindowParams)
        created == create_sollumz_object(self, "FRAGVEHICLEWINDOW",
                                         <<"window", window_cwxml.name>>)
    IN  IF failure # NoException
        THEN Raise(self, failure)
        ELSE SetParent(created, LastObject(created), window_group)

RECURSIVE WindowsLoop(_, _, _, _)
WindowsLoop(converter, windows, groups, n) ==
    CHOOSE done \in
      {IF n > Len(windows) \/ self.exception # NoException
       THEN self
       ELSE LET window_group == get_list_item(groups, windows[n].item_id)
            IN  WindowsLoop(IF window_group # None
                            THEN create_window(self, windows[n], window_group)
                            ELSE self,
                            windows, groups, n + 1) : self \in {converter}} :
      TRUE

\* FragmentCWXMLConverter.create_vehicle_windows
converter_create_vehicle_windows(self, fragment_cwxml, groups) ==
    WindowsLoop(self, fragment_cwxml.vehicle_glass_windows, groups, 1)

\* for index, lod_cwxml in enumerate(get_populated_lods()): one LOD and
\* the windows after it
\* one round of the loop: the LOD, then the windows with its groups
LodAndWindows(self, fragment_cwxml, n) ==
    CHOOSE windowed \in
      {converter_create_vehicle_windows(lod.self, fragment_cwxml, lod.groups) :
         lod \in {create_physics_lod(self, fragment_cwxml.lods[n], n - 1)}} :
      TRUE

RECURSIVE PopulatedLodsLoop(_, _, _)
PopulatedLodsLoop(converter, fragment_cwxml, n) ==
    CHOOSE done \in
      {IF n > Len(fragment_cwxml.lods) \/ self.exception # NoException
       THEN self
       ELSE PopulatedLodsLoop(
              CHOOSE round \in
                {IF windowed.exception = NoException
                 THEN Completed(windowed, <<"lod", n - 1>>) ELSE windowed :
                   windowed \in {LodAndWindows(self, fragment_cwxml, n)}} :
                TRUE,
              fragment_cwxml, n + 1) : self \in {converter}} : TRUE

\* FragmentCWXMLConverter.create_bpy_object
Fragment_create_bpy_object(fragment_cwxml) ==
    CHOOSE call \in
      {[self |-> done,
        returned |-> IF done.exception = NoException
                     THEN done.bpy_object ELSE None] :
         done \in {PopulatedLodsLoop(
                     create_fragment_armature(Importer, fragment_cwxml),
                     fragment_cwxml, 1)}} : TRUE

\* -------------------------------------------------------- yft/yftimport.py
\* create_empty_object(SollumType.NONE, name) with obj.parent = parent
create_empty_object(self, name, parent) ==
    LET created == create_sollumz_object(self, "NONE", name)
    IN  SetParent(created, LastObject(created), parent)

\* create_frag_armature, the materials, the mesh empty and the drawable
\* mesh of a fragment whose drawable holds no geometry
create_frag_armature(self, frag_xml) ==
    LET armature == create_fragment_armature(self, frag_xml)
    IN  create_empty_object(armature, <<"mesh">>, armature.bpy_object)

\* logger has info, warning and error; any other attribute is missing
LoggerFunctions == {"info", "warning", "error"}

logger(self, function, message) ==
    IF function \in LoggerFunctions
    THEN Report(self, IF function = "info" THEN "INFO"
                      ELSE IF function = "warning" THEN "WARNING"
                      ELSE "ERROR", message)
    ELSE Raise(self, "AttributeError")

create_frag_collisions(self, frag_xml) ==
    IF self.exception # NoException THEN self
    ELSE IF ~frag_xml.lods[1].has_bounds
    THEN LET warned == logger(self, "warn", <<"no collisions">>)
         IN  IF warned.exception = NoException
             THEN Completed(warned, <<"collisions">>) ELSE warned
    ELSE Completed(create_empty_object(self, <<"col">>, self.bpy_object),
                   <<"collisions">>)

\* create_frag_lods only fills properties of the fragment object
create_frag_lods(self, frag_xml) ==
    IF self.exception # NoException THEN self ELSE Completed(self, <<"lods">>)

HasBone(frag_xml, name) ==
    \E b \in 1..Len(frag_xml.bones) : frag_xml.bones[b].name = name

RECURSIVE BonePhysicsLoop(_, _, _, _)
BonePhysicsLoop(importer, frag_xml, groups_xml, n) ==
    CHOOSE done \in
      {IF n > Len(groups_xml) THEN self
       ELSE BonePhysicsLoop(
              IF ~HasBone(frag_xml, groups_xml[n].name)
              THEN logger(self, "warning",
                          <<"no bone for group", groups_xml[n].name>>)
              ELSE self,
              frag_xml, groups_xml, n + 1) : self \in {importer}} : TRUE

set_all_bone_physics_properties(self, frag_xml) ==
    IF self.exception # NoException THEN self
    ELSE Completed(BonePhysicsLoop(self, frag_xml, frag_xml.lods[1].groups, 1),
                   <<"bone physics">>)

HasBoneTag(frag_xml, tag) ==
    \E b \in 1..Len(frag_xml.bones) : frag_xml.bones[b].tag = tag

\* the children's drawables hold no geometry: no mesh is created
RECURSIVE ChildMeshesLoop(_, _, _, _)
ChildMeshesLoop(importer, frag_xml, children_xml, n) ==
    CHOOSE done \in
      {IF n > Len(children_xml) THEN self
       ELSE ChildMeshesLoop(
              IF children_xml[n].group_index >= Len(frag_xml.lods[1].groups)
              THEN logger(self, "warning", <<"invalid group index", n - 1>>)
              ELSE IF ~HasBoneTag(frag_xml, children_xml[n].bone_tag)
              THEN logger(self, "warning", <<"invalid bone tag", n - 1>>)
              ELSE self,
              frag_xml, children_xml, n + 1) : self \in {importer}} : TRUE

create_frag_child_meshes(self, frag_xml) ==
    IF self.exception # NoException THEN self
    ELSE Completed(ChildMeshesLoop(self, frag_xml,
                                   frag_xml.lods[1].children, 1),
                   <<"child meshes">>)

\* get_window_bone: every path ends in a bone of bpy_bones, the first one
\* when the child or its bone is not found; without bones bpy_bones[0]
\* raises IndexError.  The position of the bone in bpy_bones, counted from
\* 1, or 0 for the IndexError.
get_window_bone(window_xml, frag_xml) ==
    LET children_xml == frag_xml.lods[1].children
        child_id == window_xml.item_id
        tagged == {b \in 1..Len(frag_xml.bones) :
                     /\ 0 <= child_id /\ child_id < Len(children_xml)
                     /\ frag_xml.bones[b].tag
                          = children_xml[child_id + 1].bone_tag}
    IN  IF tagged # {}
        THEN CHOOSE b \in tagged : \A o \in tagged : b <= o
        ELSE Min(1, Len(frag_xml.bones))

RECURSIVE GlassShardsLoop(_, _, _, _, _)
GlassShardsLoop(importer, frag_xml, windows, veh_windows_empty, n) ==
    CHOOSE done \in
      {IF n > Len(windows) \/ self.exception # NoException
       THEN self
       ELSE LET window_bone == get_window_bone(windows[n], frag_xml)
                created == create_sollumz_object(
                             self, "FRAGVEHICLEWINDOW",
                             <<"window", windows[n].name,
                               frag_xml.bones[window_bone].name>>)
            IN  GlassShardsLoop(
                  IF window_bone = 0
                  THEN Raise(self, "IndexError")
                  ELSE SetParent(created, LastObject(created),
                                 veh_windows_empty),
                  frag_xml, windows, veh_windows_empty, n + 1) :
         self \in {importer}} : TRUE

create_vehicle_windows(self, frag_xml) ==
    IF self.exception # NoException THEN self
    ELSE IF frag_xml.vehicle_glass_windows = <<>>
    THEN Completed(self, <<"windows">>)
    ELSE CHOOSE windowed \in
           {IF done.exception = NoException
            THEN Completed(done, <<"windows">>) ELSE done :
              done \in
                {GlassShardsLoop(parented, frag_xml,
                                 frag_xml.vehicle_glass_windows,
                                 LastObject(parented), 1) :
                   parented \in {create_empty_object(self, <<"glass_shards">>,
                                                     self.bpy_object)}}} :
           TRUE

\* create_fragment_obj without _hi file and without lights
create_fragment_obj(frag_xml) ==
    CHOOSE done \in
      {create_vehicle_windows(child_meshes, frag_xml) :
         child_meshes \in
      {create_frag_child_meshes(bone_physics, frag_xml) :
         bone_physics \in
      {set_all_bone_physics_properties(lods, frag_xml) :
         lods \in
      {create_frag_lods(collisions, frag_xml) :
         collisions \in
      {create_frag_collisions(armature, frag_xml) :
         armature \in {create_frag_armature(Importer, frag_xml)}}}}}} : TRUE

\* ----------------------------------------------------------- fragment spec
MaxLods == 3         \* populated physics LODs of one fragment
MaxFragBones == 2    \* bones of the fragment's skeleton
MaxWindows == 2      \* vehicle glass windows of one fragment

\* the skeleton: bone b carries tag b and the name of group b
FragmentBones(n) ==
    [b \in 1..n |-> [name |-> <<"group", b - 1>>, tag |-> b - 1]]

\* groups in one chain under the LOD root
ChainGroups(n) ==
    [k \in 1..n |-> GroupItem(k - 1, IF k = 1 THEN ROOT_PARENT_INDEX
                                     ELSE k - 2)]

FragmentChild(group_index) ==
    [group_index |-> group_index, bone_tag |-> group_index]

ChildLists == {<<>>, <<FragmentChild(0)>>}

WindowItem(k, item_id) == [name |-> k, item_id |-> item_id]

WindowIds == {0, MaxLodGroups}

\* LOD1; the other populated LODs carry one group and no children here
FirstLods ==
    {LODProperty(<<"LOD", 1>>, has_bounds, ChainGroups(ng), children) :
       has_bounds \in BOOLEAN, ng \in 0..MaxLodGroups, children \in ChildLists}

InitFragment ==
    /\ op = "input"
    /\ \E nl \in 1..MaxLods, nb \in 0..MaxFragBones, nw \in 0..MaxWindows,
          lod1 \in FirstLods :
         \E item_id \in [1..nw -> WindowIds],
            has_bounds \in [2..nl -> BOOLEAN] :
            cwxml = [name |-> <<"fragment">>,
                     bones |-> FragmentBones(nb),
                     lods |-> [n \in 1..nl |->
                                 IF n = 1 THEN lod1
                                 ELSE LODProperty(<<"LOD", n>>, has_bounds[n],
                                                  ChainGroups(1), <<>>)],
                     vehicle_glass_windows |->
                         [w \in 1..nw |-> WindowItem(w - 1, item_id[w])]]
    /\ objects = <<>>
    /\ reports = <<>>
    /\ exception = NoException
    /\ files = <<>>
    /\ returned = <<>>
    /\ IdleGeometry

\* FragmentCWXMLConverter(cwxml).create_bpy_object(name)
FragmentCreateBpyObject ==
    /\ op = "input"
    /\ op' = "Fragment.create_bpy_object"
    /\ LET call == Fragment_create_bpy_object(cwxml)
       IN  /\ objects' = call.self.objects
           /\ reports' = call.self.reports
           /\ exception' = call.self.exception
           /\ returned' = [returned |-> call.returned,
                           stages |-> call.self.stages]
    /\ UNCHANGED <<cwxml, files>>
    /\ UNCHANGED geometry_vars

\* create_fragment_obj(frag_xml, filepath) of yftimport
CreateFragmentObj ==
    /\ op = "input"
    /\ op' = "create_fragment_obj"
    /\ LET done == create_fragment_obj(cwxml)
       IN  /\ objects' = done.objects
           /\ reports' = done.reports
           /\ exception' = done.exception
           /\ returned' = [returned |-> None, stages |-> done.stages]
    /\ UNCHANGED <<cwxml, files>>
    /\ UNCHANGED geometry_vars

NextFragment == FragmentCreateBpyObject \/ CreateFragmentObj

SpecFragment == InitFragment /\ [][NextFragment]_vars

\* ----------------------------------------------------- window quad
\* the 3x3 matrix left of m without row r and column c (counted from 1)
Minor(m, r, c) ==
    [i \in 1..3 |-> [j \in 1..3 |->
        m[IF i < r THEN i ELSE i + 1][IF j < c THEN j ELSE j + 1]]]

Det3(a) ==
    a[1][1] * (a[2][2] * a[3][3] - a[2][3] * a[3][2])
    - a[1][2] * (a[2][1] * a[3][3] - a[2][3] * a[3][1])
    + a[1][3] * (a[2][1] * a[3][2] - a[2][2] * a[3][1])

Sign(r, c) == IF (r + c) % 2 = 0 THEN 1 ELSE 0 - 1

Cofactor(m, r, c) == Sign(r, c) * Det3(Minor(m, r, c))

Det4(m) ==
    Cofactor(m, 1, 1) * m[1][1] + Cofactor(m, 1, 2) * m[1][2]
    + Cofactor(m, 1, 3) * m[1][3] + Cofactor(m, 1, 4) * m[1][4]

\* Matrix.inverted() and, for an invertible matrix, Matrix.inverted_safe():
\* the adjugate over the determinant.  The matrices inverted here have
\* determinant 1 or -1, so the quotients are exact.
inverted(m) ==
    [r \in 1..4 |-> [c \in 1..4 |-> Cofactor(m, c, r) \div Det4(m)]]

Abs(x) == IF x < 0 THEN 0 - x ELSE x

\* A point with rational coordinates is <<x, y, z, d>> for (x/d, y/d, z/d).
\* tools.utils.multiW and multiply_homogeneous: the point as a row vector
\* (x, y, z, 1) times the matrix, divided by the absolute value of the
\* fourth component
multiW(m, v) ==
    LET x == m[1][1] * v[1] + m[2][1] * v[2] + m[3][1] * v[3] + m[4][1] * v[4]
        y == m[1][2] * v[1] + m[2][2] * v[2] + m[3][2] * v[3] + m[4][2] * v[4]
        z == m[1][3] * v[1] + m[2][3] * v[2] + m[3][3] * v[3] + m[4][3] * v[4]
        w == m[1][4] * v[1] + m[2][4] * v[2] + m[3][4] * v[3] + m[4][4] * v[4]
    IN  <<x, y, z, Abs(w)>>

\* mat[3][3] = 1
WithUnitCorner(mat) == [mat EXCEPT ![4][4] = 1]

\* WindowCWXMLConverter.get_matrix
get_matrix(window_cwxml) ==
    inverted(transposed(WithUnitCorner(window_cwxml.projection_matrix)))

\* yftimport.get_window_projection_matrix
get_window_projection_matrix(window_xml) ==
    inverted(transposed(WithUnitCorner(window_xml.projection_matrix)))

multiply_homogeneous(m, v) == multiW(m, v)

\* Vector((x, y, 0)) with x = xnum / 2
HalfPoint(xnum, y) == <<xnum, 2 * y, 0, 2>>

\* get_verts with max.x the whole width
get_verts_full_width(window_cwxml) ==
    CHOOSE verts \in
      {<<multiW(matrix, HalfPoint(0, 0)),
         multiW(matrix, HalfPoint(0, window_cwxml.height)),
         multiW(matrix, HalfPoint(2 * window_cwxml.width,
                                  window_cwxml.height)),
         multiW(matrix, HalfPoint(2 * window_cwxml.width, 0))>> :
         matrix \in {get_matrix(window_cwxml)}} : TRUE

\* yftimport.calculate_window_verts
calculate_window_verts(window_xml) ==
    CHOOSE verts \in
      {<<multiply_homogeneous(proj_mat, HalfPoint(0, 0)),
         multiply_homogeneous(proj_mat, HalfPoint(0, window_xml.height)),
         multiply_homogeneous(proj_mat, HalfPoint(window_xml.width,
                                                  window_xml.height)),
         multiply_homogeneous(proj_mat, HalfPoint(window_xml.width, 0))>> :
         proj_mat \in {get_window_projection_matrix(window_xml)}} : TRUE

\* WindowCWXMLConverter.get_verts: max = Vector((width / 2, height, 1))
get_verts(window_cwxml) ==
    CHOOSE verts \in
      {<<multiW(matrix, HalfPoint(0, 0)),
         multiW(matrix, HalfPoint(0, window_cwxml.height)),
         multiW(matrix, HalfPoint(window_cwxml.width, window_cwxml.height)),
         multiW(matrix, HalfPoint(window_cwxml.width, 0))>> :
         matrix \in {get_matrix(window_cwxml)}} : TRUE

\* ------------------------------------------------------------ window spec
MaxWidth == 3        \* declared width of a window
MaxHeight == 2       \* declared height of a window
MaxTranslation == 1  \* largest entry of the matrix' fourth column

\* 3x3 parts with determinant 1 or -1, none of them symmetric but the first
Linear ==
    {<<<<1, 0, 0>>, <<0, 1, 0>>, <<0, 0, 1>>>>,
     <<<<1, 1, 0>>, <<0, 1, 0>>, <<0, 0, 1>>>>,
     <<<<0, 1, 0>>, <<0, 0, 1>>, <<1, 0, 0>>>>,
     <<<<1, 0, 0>>, <<2, 1, 0>>, <<0, 3, 0 - 1>>>>}

\* proj_mat[3][3] as stored: "currently an unknown value"
UnknownCorners == {0, 1, 5}

ProjectionMatrix(a, t, u) ==
    <<a[1] \o <<t[1]>>, a[2] \o <<t[2]>>, a[3] \o <<t[3]>>, <<0, 0, 0, u>>>>

InitWindow ==
    /\ op = "input"
    /\ \E a \in Linear, u \in UnknownCorners,
          t \in [1..3 -> 0..MaxTranslation],
          width \in 1..MaxWidth, height \in 1..MaxHeight :
         cwxml = [projection_matrix |-> ProjectionMatrix(a, t, u),
                  width |-> width, height |-> height]
    /\ objects = <<>>
    /\ reports = <<>>
    /\ exception = NoException
    /\ files = <<>>
    /\ returned = <<>>
    /\ IdleGeometry

\* WindowCWXMLConverter.get_verts()
GetVerts ==
    /\ op = "input"
    /\ op' = "get_verts"
    /\ returned' = get_verts(cwxml)
    /\ cwxml' = [cwxml EXCEPT !.projection_matrix = WithUnitCorner(@)]
    /\ UNCHANGED <<objects, reports, exception, files>>
    /\ UNCHANGED geometry_vars

\* calculate_window_verts(window_xml) of yftimport
CalculateWindowVerts ==
    /\ op = "input"
    /\ op' = "calculate_window_verts"
    /\ returned' = calculate_window_verts(cwxml)
    /\ cwxml' = [cwxml EXCEPT !.projection_matrix = WithUnitCorner(@)]
    /\ UNCHANGED <<objects, reports, exception, files>>
    /\ UNCHANGED geometry_vars

NextWindow == GetVerts \/ CalculateWindowVerts

SpecWindow == InitWindow /\ [][NextWindow]_vars

\* ------------------------------------------------------ bones transforms
\* tools.blenderhelper.get_parent_bone: the bone a child is parented to,
\* None for a child parented to no bone.  A bone is <<its tag>>.
get_parent_bone(child) == child.parent_bone

\* the loop of apply_bones_transforms; `return` ends it at the first child
\* without parent bone
RECURSIVE BonesTransformsLoop(_, _, _)
BonesTransformsLoop(children, transforms, n) ==
    CHOOSE done \in
      {IF n > Len(children) THEN children
       ELSE IF parent_bone = None THEN children
       ELSE LET bone_index == parent_bone[1]
            IN  BonesTransformsLoop(
                  [children EXCEPT ![n].matrix_basis =
                     IF bone_index < Len(transforms)
                     THEN transforms[bone_index + 1] ELSE Identity],
                  transforms, n + 1) :
         parent_bone \in {IF n > Len(children) THEN None
                          ELSE get_parent_bone(children[n])}} : TRUE

\* FragmentCWXMLConverter.apply_bones_transforms
apply_bones_transforms(fragment_cwxml, children) ==
    BonesTransformsLoop(children, fragment_cwxml.bones_transforms, 1)

\* ------------------------------------------------- bones transforms spec
MaxBoneChildren == 3    \* children of the fragment object
MaxBoneTransforms == 2  \* entries of the fragment's bones_transforms

\* None or a bone whose tag may lie past the transforms
ParentBones == {None} \cup {<<tag>> : tag \in 0..MaxBoneTransforms}

InitBones ==
    /\ op = "input"
    /\ \E nt \in 0..MaxBoneTransforms, nc \in 0..MaxBoneChildren :
         \E parent_bone \in [1..nc -> ParentBones] :
            /\ cwxml = [bones_transforms |->
                          [k \in 1..nt |-> StoredMatrix(20 * k)]]
            /\ objects = [c \in 1..nc |->
                            [sollum_type |-> "FRAGCHILD",
                             name |-> <<"child", c - 1>>,
                             parent_bone |-> parent_bone[c],
                             matrix_basis |-> Identity]]
    /\ reports = <<>>
    /\ exception = NoException
    /\ files = <<>>
    /\ returned = <<>>
    /\ IdleGeometry

\* self.apply_bones_transforms() on the children of the fragment object
ApplyBonesTransforms ==
    /\ op = "input"
    /\ op' = "apply_bones_transforms"
    /\ objects' = apply_bones_transforms(cwxml, objects)
    /\ UNCHANGED <<cwxml, reports, exception, files, returned>>
    /\ UNCHANGED geometry_vars

NextBones == ApplyBonesTransforms

SpecBones == InitBones /\ [][NextBones]_vars

\* ------------------------------------------------------- mesh materials
\* a mesh: its material slots and the material_index of every polygon
Mesh(npolygons) ==
    [materials |-> <<>>, material_index |-> [p \in 1..npolygons |-> 0]]

\* the state of a materialization: mesh, reports, exception
Materializer(npolygons) ==
    [mesh |-> Mesh(npolygons), reports |-> <<>>, exception |-> NoException]

\* list[index] of Python finds an item: negative indices count from the end
InList(list, index) == 0 - Len(list) <= index /\ index < Len(list)

\* GeometryCWXMLConverter.create_material
create_material(self, shader_index, materials) ==
    IF ~(0 <= shader_index /\ shader_index < Len(materials))
    THEN Report(self, "WARNING", <<"material not set", shader_index>>)
    ELSE [self EXCEPT !.mesh.materials = Append(@, materials[shader_index + 1])]

\* the loop of ModelMeshCWXMLConverter.create_materials over
\* self.poly_materials.items()
RECURSIVE PolyMaterialsLoop(_, _, _, _)
PolyMaterialsLoop(converter, poly_materials, materials, n) ==
    CHOOSE done \in
      {IF n > Len(poly_materials) THEN self
       ELSE LET shader_index == poly_materials[n].k
                polygons == poly_materials[n].v
                new_shader_index == Len(self.mesh.materials)
            IN  PolyMaterialsLoop(
                  IF ~(0 <= shader_index /\ shader_index < Len(materials))
                  THEN Report(self, "WARNING",
                              <<"material not set", shader_index>>)
                  ELSE [self EXCEPT
                          !.mesh.materials =
                              Append(@, materials[shader_index + 1]),
                          !.mesh.material_index =
                              [p \in DOMAIN @ |->
                                 IF SeqHas(polygons, p - 1)
                                 THEN new_shader_index ELSE @[p]]],
                  poly_materials, materials, n + 1) :
         self \in {converter}} : TRUE

\* ModelMeshCWXMLConverter.create_materials
model_create_materials(self, poly_materials, materials) ==
    IF materials = <<>> THEN self
    ELSE PolyMaterialsLoop(self, poly_materials, materials, 1)

\* the loop of GeometryData.create_mesh_materials over the polygons;
\* mat_indices maps a shader index to its slot on the mesh
RECURSIVE MeshMaterialsLoop(_, _, _, _, _)
MeshMaterialsLoop(data, material_indices, frag_materials, mat_indices, n) ==
    CHOOSE done \in
      {IF n > Len(material_indices) \/ self.exception # NoException
       THEN self
       ELSE LET frag_mat_index == material_indices[n]
                slot == Len(self.mesh.materials)
                mat == frag_materials[ListPosition(frag_materials,
                                                   frag_mat_index)]
            IN  IF DictHas(mat_indices, frag_mat_index)
                THEN MeshMaterialsLoop(
                       [self EXCEPT !.mesh.material_index[n] =
                                       DictGet(mat_indices, frag_mat_index)],
                       material_indices, frag_materials, mat_indices, n + 1)
                ELSE IF ~InList(frag_materials, frag_mat_index)
                THEN Raise(self, "IndexError")
                ELSE MeshMaterialsLoop(
                       [self EXCEPT !.mesh.materials = Append(@, mat),
                                    !.mesh.material_index[n] = slot],
                       material_indices, frag_materials,
                       DictPut(mat_indices, frag_mat_index, slot), n + 1) :
         self \in {data}} : TRUE

\* GeometryData.create_mesh_materials
create_mesh_materials(self, material_indices, frag_materials) ==
    MeshMaterialsLoop(self, material_indices, frag_materials, EmptyDict, 1)

\* poly_materials as get_vertices_polygons builds it: shader index ->
\* polygon indices, for one polygon per entry of material_indices
RECURSIVE PolyMaterials(_, _)
PolyMaterials(material_indices, n) ==
    IF n = 0 THEN EmptyDict
    ELSE LET before == PolyMaterials(material_indices, n - 1)
         IN  DictPut(before, material_indices[n],
                     Append(DictGetList(before, material_indices[n]), n - 1))

\* -------------------------------------------------- mesh materials spec
MaxMaterials == 2   \* materials of the drawable
MaxPolygons == 2    \* polygons of one mesh

ShaderIndexRange == (0 - 1)..MaxMaterials

InitMaterials ==
    /\ op = "input"
    /\ \E nm \in 0..MaxMaterials, np \in 1..MaxPolygons :
         \E material_indices \in [1..np -> ShaderIndexRange] :
            cwxml = [materials |-> [m \in 1..nm |-> <<"material", m - 1>>],
                     material_indices |-> material_indices]
    /\ objects = <<>>
    /\ reports = <<>>
    /\ exception = NoException
    /\ files = <<>>
    /\ returned = <<>>
    /\ IdleGeometry

\* GeometryCWXMLConverter.create_material for a geometry block whose
\* shader index is the first of the indices
CreateMaterial ==
    /\ op = "input"
    /\ op' = "create_material"
    /\ \E done \in {create_material(Materializer(Len(cwxml.material_indices)),
                                    cwxml.material_indices[1],
                                    cwxml.materials)} :
         /\ objects' = <<done.mesh>>
         /\ reports' = done.reports
         /\ exception' = done.exception
    /\ UNCHANGED <<cwxml, files, returned>>
    /\ UNCHANGED geometry_vars

\* ModelMeshCWXMLConverter.create_materials
ModelCreateMaterials ==
    /\ op = "input"
    /\ op' = "create_materials"
    /\ \E done \in {model_create_materials(
                      Materializer(Len(cwxml.material_indices)),
                      PolyMaterials(cwxml.material_indices,
                                    Len(cwxml.material_indices)),
                      cwxml.materials)} :
         /\ objects' = <<done.mesh>>
         /\ reports' = done.reports
         /\ exception' = done.exception
    /\ UNCHANGED <<cwxml, files, returned>>
    /\ UNCHANGED geometry_vars

\* GeometryData.create_mesh_materials
CreateMeshMaterials ==
    /\ op = "input"
    /\ op' = "create_mesh_materials"
    /\ \E done \in {create_mesh_materials(
                      Materializer(Len(cwxml.material_indices)),
                      cwxml.material_indices, cwxml.materials)} :
         /\ objects' = <<done.mesh>>
         /\ reports' = done.reports
         /\ exception' = done.exception
    /\ UNCHANGED <<cwxml, files, returned>>
    /\ UNCHANGED geometry_vars

NextMaterials == CreateMaterial \/ ModelCreateMaterials \/ CreateMeshMaterials

SpecMaterials == InitMaterials /\ [][NextMaterials]_vars

\* ------------------------------------------------------------ yft export
\* an exporter: the files on disk, the reports, the raised exception and
\* the cwxml built so far; a cwxml that is None is <<>>, one that exists is
\* <<its record>>
Exporter(bpy_object) ==
    [bpy_object |-> bpy_object, cwxml |-> None, files |-> <<>>,
     reports |-> <<>>, exception |-> NoException]

\* Element.write_xml: the file at filepath holds the structure as it is
\* at the time of the call
write_xml(self, element, filepath) ==
    [self EXCEPT !.files = Append(@, [filepath |-> filepath,
                                      content |-> element])]

\* FragmentBPYConverter.create_lods: the LOD of each FRAGLOD child goes
\* to the slot of its type, the other slots are None
create_lods(self) ==
    LET lods == self.bpy_object.lods
        LodOf(lod_index) ==
            IF \E c \in 1..Len(lods) : lods[c].type = lod_index
            THEN LET last == CHOOSE c \in 1..Len(lods) :
                               /\ lods[c].type = lod_index
                               /\ \A d \in (c + 1)..Len(lods) :
                                     lods[d].type # lod_index
                 IN  <<[tag_name |-> <<"LOD", lod_index>>,
                        children |-> [i \in 1..lods[last].children |->
                                        [models |-> {"high", "med",
                                                     "low", "vlow"}]]]>>
            ELSE None
    IN  [self EXCEPT !.cwxml[1].physics =
                        [lod1 |-> LodOf(1), lod2 |-> LodOf(2),
                         lod3 |-> LodOf(3)]]

\* FragmentBPYConverter.create_cwxml; the returned structure is left in
\* self.cwxml, None when there is no drawable
Fragment_create_cwxml(converter) ==
    LET named == [converter EXCEPT !.cwxml =
                    <<[name |-> <<converter.bpy_object.name>>,
                       drawable |-> None,
                       physics |-> [lod1 |-> None, lod2 |-> None,
                                    lod3 |-> None],
                       vehicle_glass_windows |-> <<>>]>>]
    IN  IF ~converter.bpy_object.has_drawable
        THEN [Report(named, "WARNING", <<"No drawable to export">>)
                EXCEPT !.cwxml = None]
        ELSE CHOOSE done \in
               {create_lods(
                  [self EXCEPT
                     !.cwxml[1].drawable =
                         <<[models |-> {"high", "med", "low", "vlow"}]>>,
                     !.cwxml[1].vehicle_glass_windows =
                         [w \in 1..self.bpy_object.windows |->
                            <<"window", w>>]]) :
                self \in {named}} : TRUE

\* BPYConverter.bpy_to_xml_file with cls = FragmentBPYConverter
BPYConverter_bpy_to_xml_file(bpy_object, filepath) ==
    CHOOSE done \in
      {IF self.cwxml = None
       THEN Raise(self, "AttributeError")
       ELSE write_xml(self, self.cwxml[1], filepath) :
       self \in {Fragment_create_cwxml(Exporter(bpy_object))}} : TRUE

HiModels == {"high"}

\* FragmentBPYConverter.convert_to_hi: strips the structure in place
convert_to_hi(self) ==
    LET stripped ==
          [self EXCEPT !.cwxml[1].drawable[1].models = HiModels,
                       !.cwxml[1].vehicle_glass_windows = None]
        lod1 == self.cwxml[1].physics.lod1
    IN  IF lod1 = None
        THEN Raise(stripped, "AttributeError")
        ELSE [stripped EXCEPT !.cwxml[1].physics.lod1[1].children =
                [i \in DOMAIN @ |-> [@[i] EXCEPT !.models = HiModels]]]

\* the path of the _hi file next to filepath
HiPath(filepath) == <<filepath[1], "_hi">>

\* the part of FragmentBPYConverter.bpy_to_xml_file after the main file
write_hi(converter, filepath) ==
    CHOOSE done \in
      {IF self.exception # NoException THEN self
       ELSE write_xml(
              [self EXCEPT !.cwxml[1].name = Append(@, "_hi")],
              [self.cwxml[1] EXCEPT !.name = Append(@, "_hi")],
              HiPath(filepath)) :
       self \in {convert_to_hi(converter)}} : TRUE

\* FragmentBPYConverter.bpy_to_xml_file
Fragment_bpy_to_xml_file(bpy_object, filepath) ==
    CHOOSE done \in
      {IF self.exception # NoException THEN self
       ELSE IF bpy_object.export_with_hi THEN write_hi(self, filepath)
       ELSE self :
       self \in {BPYConverter_bpy_to_xml_file(bpy_object, filepath)}} : TRUE

\* ------------------------------------------------------- yft export spec
MaxExportLods == 2      \* FRAGLOD children of the fragment object
MaxExportChildren == 1  \* physics children of one LOD
MaxExportWindows == 1   \* vehicle windows of the fragment object

LodTypes == 1..3

FragLod(type, children) == [type |-> type, children |-> children]

InitExport ==
    /\ op = "input"
    /\ \E has_drawable \in BOOLEAN, export_with_hi \in BOOLEAN,
          n \in 0..MaxExportLods, windows \in 0..MaxExportWindows :
         \E types \in [1..n -> LodTypes] :
            \E children \in [1..n -> 0..MaxExportChildren] :
               cwxml = [name |-> "frag",
                        has_drawable |-> has_drawable,
                        export_with_hi |-> export_with_hi,
                        windows |-> windows,
                        lods |-> [c \in 1..n |->
                                    FragLod(types[c], children[c])]]
    /\ objects = <<>>
    /\ reports = <<>>
    /\ exception = NoException
    /\ files = <<>>
    /\ returned = <<>>
    /\ IdleGeometry

ExportPath == <<"frag">>

\* BPYConverter.bpy_to_xml_file called for the fragment object
BpyToXmlFile ==
    /\ op = "input"
    /\ op' = "BPYConverter.bpy_to_xml_file"
    /\ \E done \in {BPYConverter_bpy_to_xml_file(cwxml, ExportPath)} :
         /\ files' = done.files
         /\ reports' = done.reports
         /\ exception' = done.exception
         /\ returned' = IF done.exception = NoException THEN done.cwxml
                        ELSE None
    /\ UNCHANGED <<cwxml, objects>>
    /\ UNCHANGED geometry_vars

\* FragmentBPYConverter.bpy_to_xml_file called for the fragment object
FragmentBpyToXmlFile ==
    /\ op = "input"
    /\ op' = "FragmentBPYConverter.bpy_to_xml_file"
    /\ \E done \in {Fragment_bpy_to_xml_file(cwxml, ExportPath)} :
         /\ files' = done.files
         /\ reports' = done.reports
         /\ exception' = done.exception
         /\ returned' = IF done.exception = NoException THEN done.cwxml
                        ELSE None
    /\ UNCHANGED <<cwxml, objects>>
    /\ UNCHANGED geometry_vars

NextExport == BpyToXmlFile \/ FragmentBpyToXmlFile

SpecExport == InitExport /\ [][NextExport]_vars

\* ------------------------------------------ yft export: bone transforms
\* the first loop of create_bone_transforms: the matrix_basis of every
\* drawable model with a parent bone, stored under the tag of that bone;
\* a parent bone is <<its tag, its position in the armature>>
RECURSIVE BoneTransformsMap(_, _)
BoneTransformsMap(children, n) ==
    IF n = 0 THEN EmptyDict
    ELSE LET before == BoneTransformsMap(children, n - 1)
             child == children[n]
             parent_bone == get_parent_bone(child)
         IN  IF child.sollum_type # "DRAWABLE_MODEL" THEN before
             ELSE IF parent_bone = None THEN before
             ELSE DictPut(before, parent_bone[1], child.matrix_basis)

\* FragmentBPYConverter.create_bone_transforms: the bones_transforms it
\* appends, one per range(len(drawable.data.bones))
create_bone_transforms(children, armature_bones) ==
    LET bone_transforms_map == BoneTransformsMap(children, Len(children))
    IN  [i \in 1..Len(armature_bones) |->
           IF DictHas(bone_transforms_map, i - 1)
           THEN DictGet(bone_transforms_map, i - 1) ELSE Identity]

\* ------------------------------------- yft export: bone transforms spec
MaxExportBones == 2     \* bones of the armature
MaxBoneModels == 2      \* children of the fragment object
MaxBoneTag == 2         \* largest bone tag

BoneTags == 0..MaxBoneTag

InitBoneTransforms ==
    /\ op = "input"
    /\ \E nb \in 0..MaxExportBones, nc \in 0..MaxBoneModels :
         \E tags \in [1..nb -> BoneTags] :
            /\ \A i, j \in 1..nb : tags[i] = tags[j] => i = j
            /\ \E parent \in [1..nc -> 0..nb],
                  types \in [1..nc -> {"DRAWABLE_MODEL", "FRAGLOD"}] :
                 /\ cwxml = [bones |-> tags]
                 /\ objects = [c \in 1..nc |->
                       [sollum_type |-> types[c],
                        name |-> <<"child", c - 1>>,
                        parent_bone |->
                            IF parent[c] = 0 THEN None
                            ELSE <<tags[parent[c]], parent[c] - 1>>,
                        matrix_basis |-> StoredMatrix(20 * c)]]
    /\ reports = <<>>
    /\ exception = NoException
    /\ files = <<>>
    /\ returned = <<>>
    /\ IdleGeometry

\* FragmentBPYConverter.create_bone_transforms
CreateBoneTransforms ==
    /\ op = "input"
    /\ op' = "create_bone_transforms"
    /\ returned' = create_bone_transforms(objects, cwxml.bones)
    /\ UNCHANGED <<cwxml, objects, reports, exception, files>>
    /\ UNCHANGED geometry_vars

NextBoneTransforms == CreateBoneTransforms

SpecBoneTransforms == InitBoneTransforms /\ [][NextBoneTransforms]_vars

\* ------------------------------------------- ydr/import_cwxml/skeleton.py
\* the armature being edited: its edit bones in creation order, each with
\* the position (from 0) of its parent among them or None
Armature == [edit_bones |-> <<>>, exception |-> NoException]

\* SkeletonCWXMLConverter.create_edit_bone: the new bone is in edit_bones
\* before its parent is looked up there, so the bone's own index finds the
\* bone itself; the assignment of that parent raises nothing
create_edit_bone(self, bone_cwxml) ==
    LET added == [self EXCEPT !.edit_bones =
                    Append(@, [name |-> bone_cwxml.name, parent |-> None])]
        edit_bones == added.edit_bones
        parent_index == bone_cwxml.parent_index
    IN  IF parent_index = 0 - 1 THEN added
        ELSE IF ~InList(edit_bones, parent_index)
        THEN Raise(added, "IndexError")
        ELSE [added EXCEPT !.edit_bones[Len(edit_bones)].parent =
                 <<ListPosition(edit_bones, parent_index) - 1>>]

\* the first loop of SkeletonCWXMLConverter.create_bones
RECURSIVE CreateBonesLoop(_, _, _)
CreateBonesLoop(armature, bones_cwxml, n) ==
    CHOOSE done \in
      {IF n > Len(bones_cwxml) \/ self.exception # NoException THEN self
       ELSE CreateBonesLoop(create_edit_bone(self, bones_cwxml[n]),
                            bones_cwxml, n + 1) :
         self \in {armature}} : TRUE

\* SkeletonCWXMLConverter.create_bones
create_bones(skeleton_cwxml) == CreateBonesLoop(Armature, skeleton_cwxml.bones, 1)

\* ------------------------------------------------------- skeleton spec
MaxSkelBones == 3   \* bones of one skeleton

InitSkeleton ==
    /\ op = "input"
    /\ \E n \in 1..MaxSkelBones :
         \E parent_index \in [1..n -> (0 - 2)..(MaxSkelBones - 1)] :
            cwxml = [bones |-> [b \in 1..n |->
                                  [name |-> <<"bone", b - 1>>,
                                   parent_index |-> parent_index[b]]]]
    /\ objects = <<>>
    /\ reports = <<>>
    /\ exception = NoException
    /\ files = <<>>
    /\ returned = <<>>
    /\ IdleGeometry

\* SkeletonCWXMLConverter.create_bones
CreateBones ==
    /\ op = "input"
    /\ op' = "create_bones"
    /\ \E done \in {create_bones(cwxml)} :
         /\ objects' = done.edit_bones
         /\ exception' = done.exception
    /\ UNCHANGED <<cwxml, reports, files, returned>>
    /\ UNCHANGED geometry_vars

NextSkeleton == CreateBones

SpecSkeleton == InitSkeleton /\ [][NextSkeleton]_vars

\* --------------------------------------- create_drawable_mesh: its result
\* a Python value that is either a list of objects or one object
ListValue(items) == [is_list |-> TRUE, items |-> items]

ObjectValue(obj) == [is_list |-> FALSE, items |-> <<obj>>]

MeshCall(self, value) == [self |-> self, returned |-> value]

\* create_drawable_geometry with geom.parent = parent_obj: one FRAG_GEOM
\* object of that name
create_parented_geometry(self, name) ==
    LET created == create_sollumz_object(self, "FRAG_GEOM", name)
    IN  SetParent(created, LastObject(created), <<"parent_obj">>)

\* create_joined_mesh: returns the object
create_joined_mesh(self, drawable_xml) ==
    LET created == create_parented_geometry(self, <<"mesh_object">>)
    IN  MeshCall(created, ObjectValue(LastObject(created)))

\* create_skinned_drawable_mesh behind ensure_bones: returns the object
create_skinned_drawable_mesh(self, drawable_xml) ==
    LET created == create_parented_geometry(self, drawable_xml.bones[1])
    IN  MeshCall(created, ObjectValue(LastObject(created)))

\* the loop of create_split_drawable_mesh over the groups that
\* get_split_geom_data found
RECURSIVE SplitMeshLoop(_, _, _)
SplitMeshLoop(call, group_names, n) ==
    CHOOSE done \in
      {IF n > Len(group_names) THEN before
       ELSE LET created == create_parented_geometry(before.self,
                                                    group_names[n])
            IN  SplitMeshLoop(
                  MeshCall(created,
                           ListValue(Append(before.returned.items,
                                            LastObject(created)))),
                  group_names, n + 1) : before \in {call}} : TRUE

\* create_split_drawable_mesh behind ensure_bones: returns the list geoms
create_split_drawable_mesh(self, drawable_xml) ==
    SplitMeshLoop(MeshCall(self, ListValue(<<>>)), drawable_xml.groups, 1)

\* get_geometries_by_bone_ind: the bone indices of the models without
\* skin, in the order the dict first met them
RECURSIVE NonSkinnedBoneIndices(_, _)
NonSkinnedBoneIndices(models, n) ==
    IF n = 0 THEN <<>>
    ELSE LET before == NonSkinnedBoneIndices(models, n - 1)
         IN  IF models[n].has_skin = 1 \/ SeqHas(before, models[n].bone_index)
             THEN before ELSE Append(before, models[n].bone_index)

\* the loop of create_non_skinned_drawable_mesh
RECURSIVE NonSkinnedLoop(_, _, _, _)
NonSkinnedLoop(call, drawable_xml, bone_indices, n) ==
    CHOOSE done \in
      {IF n > Len(bone_indices) \/ before.self.exception # NoException
       THEN before
       ELSE IF ~InList(drawable_xml.bones, bone_indices[n])
       THEN MeshCall(Raise(before.self, "IndexError"), before.returned)
       ELSE LET created ==
                  create_parented_geometry(
                    before.self,
                    drawable_xml.bones[ListPosition(drawable_xml.bones,
                                                    bone_indices[n])])
            IN  NonSkinnedLoop(
                  MeshCall(created,
                           ListValue(Append(before.returned.items,
                                            LastObject(created)))),
                  drawable_xml, bone_indices, n + 1) :
         before \in {call}} : TRUE

\* create_non_skinned_drawable_mesh behind ensure_bones: returns the list
create_non_skinned_drawable_mesh(self, drawable_xml) ==
    NonSkinnedLoop(MeshCall(self, ListValue(<<>>)), drawable_xml,
                   NonSkinnedBoneIndices(drawable_xml.models,
                                         Len(drawable_xml.models)), 1)

\* skinned_geoms + non_skinned_geoms: list + list, anything else raises
Plus(self, left, right) ==
    IF left.is_list /\ right.is_list
    THEN MeshCall(self, ListValue(left.items \o right.items))
    ELSE MeshCall(Raise(self, "TypeError"), None)

\* the end of create_drawable_mesh: the non-skinned meshes, then the sum
AddNonSkinned(skinned, drawable_xml) ==
    CHOOSE done \in
      {IF non_skinned.self.exception # NoException
       THEN MeshCall(non_skinned.self, None)
       ELSE Plus(non_skinned.self, skinned.returned, non_skinned.returned) :
         non_skinned \in
           {create_non_skinned_drawable_mesh(skinned.self, drawable_xml)}} :
      TRUE

\* create_drawable_mesh
create_drawable_mesh(drawable_xml, split_by_group) ==
    IF drawable_xml.bones = <<>>
    THEN LET joined == create_joined_mesh(Importer, drawable_xml)
         IN  MeshCall(joined.self, ListValue(joined.returned.items))
    ELSE CHOOSE done \in
           {AddNonSkinned(skinned, drawable_xml) :
              skinned \in
                {IF split_by_group
                 THEN create_split_drawable_mesh(Importer, drawable_xml)
                 ELSE create_skinned_drawable_mesh(Importer,
                                                   drawable_xml)}} : TRUE

\* ------------------------------------------------ create_drawable_mesh spec
MaxMeshBones == 2    \* bones of the drawable's skeleton
MaxMeshModels == 2   \* drawable models of the high LOD
MaxMeshGroups == 2   \* vertex groups of the skinned geometry

InitMesh ==
    /\ op = "input"
    /\ \E nb \in 0..MaxMeshBones, nm \in 0..MaxMeshModels,
          ng \in 0..MaxMeshGroups :
         \E has_skin \in [1..nm -> {0, 1}],
            bone_index \in [1..nm -> 0..(MaxMeshBones - 1)] :
            cwxml = [bones |-> [b \in 1..nb |-> <<"bone", b - 1>>],
                     groups |-> [g \in 1..ng |-> <<"group", g - 1>>],
                     models |-> [m \in 1..nm |->
                                   [has_skin |-> has_skin[m],
                                    bone_index |-> bone_index[m]]]]
    /\ objects = <<>>
    /\ reports = <<>>
    /\ exception = NoException
    /\ files = <<>>
    /\ returned = <<>>
    /\ IdleGeometry

\* create_drawable_mesh(drawable_xml, ..., split_by_group)
CreateDrawableMesh ==
    /\ op = "input"
    /\ \E split_by_group \in BOOLEAN :
         /\ op' = IF split_by_group THEN "create_drawable_mesh split"
                  ELSE "create_drawable_mesh"
         /\ \E call \in {create_drawable_mesh(cwxml, split_by_group)} :
              /\ objects' = call.self.objects
              /\ exception' = call.self.exception
              /\ returned' = IF call.returned = None THEN None
                             ELSE call.returned.items
    /\ UNCHANGED <<cwxml, reports, files>>
    /\ UNCHANGED geometry_vars

NextMesh == CreateDrawableMesh

SpecMesh == InitMesh /\ [][NextMesh]_vars

\* ------------------------------------------------ yft/properties.py: LODs
\* the LOD types in the order add_empty_lods adds them
LODLevel == <<"very_high", "high", "medium", "low", "very_low">>

LODTypes == {LODLevel[n] : n \in 1..Len(LODLevel)}

\* a call on LODLevels: the collection afterwards and the value returned;
\* an entry is returned as <<its position>>
LevelsCall(self, value) == [self |-> self, returned |-> value]

\* LODLevels.get_lod: the position of the first entry of the type, 0 for
\* None
get_lod(self, lod_type) ==
    LET found == {n \in 1..Len(self.lods) : self.lods[n].type = lod_type}
    IN  IF found = {} THEN 0 ELSE CHOOSE n \in found : \A o \in found : n <= o

\* LODLevels.set_lod_mesh
set_lod_mesh(self, lod_type, mesh) ==
    LET n == get_lod(self, lod_type)
    IN  IF n = 0 THEN LevelsCall(self, None)
        ELSE LevelsCall([self EXCEPT !.lods[n].mesh = mesh], Ref(n))

\* LODLevels.add_lod without the look for an entry of the type
add_lod_unchecked(self, lod_type, mesh) ==
    LevelsCall([self EXCEPT !.lods = Append(@, [type |-> lod_type,
                                                 mesh |-> mesh])],
               Ref(Len(self.lods) + 1))

\* LODLevels.add_lod
add_lod(self, lod_type, mesh) ==
    IF get_lod(self, lod_type) # 0 THEN LevelsCall(self, None)
    ELSE LevelsCall([self EXCEPT !.lods = Append(@, [type |-> lod_type,
                                                      mesh |-> mesh])],
                    Ref(Len(self.lods) + 1))

\* LODLevels.remove_lod
remove_lod(self, lod_type) ==
    LET n == get_lod(self, lod_type)
    IN  IF n = 0 THEN self
        ELSE [self EXCEPT !.lods = SubSeq(@, 1, n - 1)
                                     \o SubSeq(@, n + 1, Len(@))]

\* LODLevels.set_active_lod
set_active_lod(self, lod_type) ==
    LET n == get_lod(self, lod_type)
    IN  IF n = 0 THEN self ELSE [self EXCEPT !.active_lod_index = n - 1]

\* LODLevels.add_empty_lods
RECURSIVE add_empty_lods_from(_, _)
add_empty_lods_from(levels, n) ==
    CHOOSE done \in
      {IF n > Len(LODLevel) THEN self
       ELSE add_empty_lods_from(add_lod(self, LODLevel[n], None).self, n + 1) :
         self \in {levels}} : TRUE

add_empty_lods(self) == add_empty_lods_from(self, 1)

\* -------------------------------------------------------------- LODs spec
MaxCalls == 3   \* calls made on one object's LODLevels

Meshes == {None, <<"mesh">>}

NoCall == [lod_type |-> "", mesh |-> None]

InitLevels ==
    /\ op = "input"
    /\ cwxml = NoCall
    /\ objects = [lods |-> <<>>, active_lod_index |-> 0, calls |-> 0]
    /\ reports = <<>>
    /\ exception = NoException
    /\ files = <<>>
    /\ returned = <<>>
    /\ IdleGeometry

\* one more call on the object
Called(self) == [self EXCEPT !.calls = @ + 1]

AddLod ==
    /\ objects.calls < MaxCalls
    /\ op' = "add_lod"
    /\ \E lod_type \in LODTypes, mesh \in Meshes :
         /\ cwxml' = [lod_type |-> lod_type, mesh |-> mesh]
         /\ \E call \in {add_lod(objects, lod_type, mesh)} :
              /\ objects' = Called(call.self)
              /\ returned' = call.returned
    /\ UNCHANGED <<reports, exception, files>>
    /\ UNCHANGED geometry_vars

AddEmptyLods ==
    /\ objects.calls < MaxCalls
    /\ op' = "add_empty_lods"
    /\ cwxml' = NoCall
    /\ objects' = Called(add_empty_lods(objects))
    /\ returned' = None
    /\ UNCHANGED <<reports, exception, files>>
    /\ UNCHANGED geometry_vars

RemoveLod ==
    /\ objects.calls < MaxCalls
    /\ op' = "remove_lod"
    /\ \E lod_type \in LODTypes :
         /\ cwxml' = [lod_type |-> lod_type, mesh |-> None]
         /\ objects' = Called(remove_lod(objects, lod_type))
    /\ returned' = None
    /\ UNCHANGED <<reports, exception, files>>
    /\ UNCHANGED geometry_vars

SetLodMesh ==
    /\ objects.calls < MaxCalls
    /\ op' = "set_lod_mesh"
    /\ \E lod_type \in LODTypes, mesh \in Meshes :
         /\ cwxml' = [lod_type |-> lod_type, mesh |-> mesh]
         /\ \E call \in {set_lod_mesh(objects, lod_type, mesh)} :
              /\ objects' = Called(call.self)
              /\ returned' = call.returned
    /\ UNCHANGED <<reports, exception, files>>
    /\ UNCHANGED geometry_vars

SetActiveLod ==
    /\ objects.calls < MaxCalls
    /\ op' = "set_active_lod"
    /\ \E lod_type \in LODTypes :
         /\ cwxml' = [lod_type |-> lod_type, mesh |-> None]
         /\ objects' = Called(set_active_lod(objects, lod_type))
    /\ returned' = None
    /\ UNCHANGED <<reports, exception, files>>
    /\ UNCHANGED geometry_vars

NextLevels ==
    AddLod \/ AddEmptyLods \/ RemoveLod \/ SetLodMesh \/ SetActiveLod

SpecLevels == InitLevels /\ [][NextLevels]_vars

\* ----------------------------------------- yft/export_cwxml/physicslod.py
\* LODProperty(): the position offset of a new LOD structure
DefaultPositionOffset == <<0, 0, 0>>

NewLODProperty ==
    [position_offset |-> DefaultPositionOffset, transforms |-> <<>>]

\* PhysicsLodBPYConverter.create_physics_child_transforms
create_physics_child_transforms(lod_cwxml, physics_child) ==
    LET pos_offset == lod_cwxml.position_offset
        transform == transposed(physics_child.matrix_basis)
        a == transform[4][1] - pos_offset[1]
        b == transform[4][2] - pos_offset[2]
        c == transform[4][3] - pos_offset[3]
    IN  [lod_cwxml EXCEPT !.transforms =
           Append(@, WithTranslation(transform, a, b, c))]

\* the loop of PhysicsLodBPYConverter.create_physics_children
RECURSIVE create_physics_children(_, _, _)
create_physics_children(lod_cwxml, physics_children, n) ==
    CHOOSE done \in
      {IF n > Len(physics_children) THEN self
       ELSE create_physics_children(
              create_physics_child_transforms(self, physics_children[n]),
              physics_children, n + 1) : self \in {lod_cwxml}} : TRUE

\* PhysicsLodBPYConverter.set_lod_properties
export_set_lod_properties(lod_cwxml, lod) ==
    [lod_cwxml EXCEPT !.position_offset = lod.lod_properties.position_offset]

\* PhysicsLodBPYConverter.create_cwxml: the children first, the LOD
\* properties after them
PhysicsLod_create_cwxml(lod) ==
    export_set_lod_properties(
      create_physics_children(NewLODProperty, lod.children, 1), lod)

\* the LOD object that PhysicsLodCWXMLConverter makes of lod_cwxml: its
\* position offset and one child per stored transform
ImportedLod(lod_cwxml) ==
    [lod_properties |-> [position_offset |-> lod_cwxml.position_offset],
     children |-> [k \in 1..Len(lod_cwxml.transforms) |->
                     [matrix_basis |->
                        get_child_transform(lod_cwxml, k - 1).returned]]]

\* ------------------------------------------------------ LOD export spec
InitLodExport ==
    /\ op = "input"
    /\ \E n \in 0..MaxTransforms, x \in Offsets, y \in Offsets, z \in Offsets :
         \E base \in [1..n -> StoredBases] :
            cwxml = [transforms |-> [k \in 1..n |-> StoredMatrix(base[k])],
                     position_offset |-> <<x, y, z>>]
    /\ objects = <<>>
    /\ reports = <<>>
    /\ exception = NoException
    /\ files = <<>>
    /\ returned = <<>>
    /\ IdleGeometry

\* the import of the LOD by PhysicsLodCWXMLConverter
ImportLod ==
    /\ op = "input"
    /\ op' = "imported"
    /\ objects' = <<ImportedLod(cwxml)>>
    /\ UNCHANGED <<cwxml, reports, exception, files, returned>>
    /\ UNCHANGED geometry_vars

\* PhysicsLodBPYConverter(lod, materials).create_cwxml()
ExportLod ==
    /\ op = "imported"
    /\ op' = "exported"
    /\ returned' = PhysicsLod_create_cwxml(objects[1])
    /\ UNCHANGED <<cwxml, objects, reports, exception, files>>
    /\ UNCHANGED geometry_vars

NextLodExport == ImportLod \/ ExportLod

SpecLodExport == InitLodExport /\ [][NextLodExport]_vars

\* --------------------------------------------- window material slots
\* WindowCWXMLConverter.create_materials: the materials of the window mesh;
\* without glass material the converter calls self.report, which it does
\* not have
window_create_materials(self, window_cwxml, frag_materials) ==
    LET shattered == [self EXCEPT !.mesh.materials =
                        Append(@, <<"shattermap">>)]
        mat_index == window_cwxml.unk_ushort_1 - 1
        glass_material == get_list_item(frag_materials, mat_index)
    IN  IF glass_material = None
        THEN Raise(shattered, "AttributeError")
        ELSE [shattered EXCEPT !.mesh.materials = Append(@, glass_material)]

\* materials.index(material), 0 when the material is not in the list
ListIndex(list, item) ==
    LET found == {n \in 1..Len(list) : list[n] = item}
    IN  IF found = {} THEN 0 ELSE CHOOSE n \in found : \A o \in found : n <= o

\* WindowBPYConverter.create_cwxml: item_id and unk_ushort_1 of the window
window_create_cwxml(mesh, group_index, frag_materials) ==
    LET written == [item_id |-> group_index, unk_ushort_1 |-> None,
                    exception |-> NoException]
    IN  IF Len(mesh.materials) < 2
        THEN [written EXCEPT !.exception = "IndexError"]
        ELSE IF ListIndex(frag_materials, mesh.materials[2]) = 0
        THEN [written EXCEPT !.exception = "ValueError"]
        ELSE [written EXCEPT !.unk_ushort_1 =
                <<ListIndex(frag_materials, mesh.materials[2]) - 1>>]

\* ------------------------------------------------- window materials spec
MaxSlot == 4        \* largest slot index of a window
MaxGroupIndex == 3  \* largest group index of a window

InitSlots ==
    /\ op = "input"
    /\ \E nm \in 0..MaxMaterials, x \in 0..MaxSlot, g \in 0..MaxGroupIndex :
         cwxml = [materials |-> [m \in 1..nm |-> <<"material", m - 1>>],
                  unk_ushort_1 |-> x,
                  item_id |-> g]
    /\ objects = <<>>
    /\ reports = <<>>
    /\ exception = NoException
    /\ files = <<>>
    /\ returned = <<>>
    /\ IdleGeometry

\* WindowCWXMLConverter.create_materials for the window
ImportWindowMaterials ==
    /\ op = "input"
    /\ op' = "imported"
    /\ \E done \in {window_create_materials(Materializer(1), cwxml,
                                            cwxml.materials)} :
         /\ objects' = <<done.mesh>>
         /\ exception' = done.exception
    /\ UNCHANGED <<cwxml, reports, files, returned>>
    /\ UNCHANGED geometry_vars

\* WindowBPYConverter.create_cwxml for the imported window
ExportWindowMaterials ==
    /\ op = "imported"
    /\ exception = NoException
    /\ op' = "exported"
    /\ \E written \in {window_create_cwxml(objects[1], cwxml.item_id,
                                           cwxml.materials)} :
         /\ returned' = written
         /\ exception' = written.exception
    /\ UNCHANGED <<cwxml, objects, reports, files>>
    /\ UNCHANGED geometry_vars

NextSlots == ImportWindowMaterials \/ ExportWindowMaterials

SpecSlots == InitSlots /\ [][NextSlots]_vars

\* --------------------------- import_cwxml/fragment.py: combined geometry
\* the body of the loop over the geometries of one model, from geometry i
\* (counted from 0) on; all is [vertices, indices], two dicts by shader
RECURSIVE ModelGeometriesLoop(_, _, _)
ModelGeometriesLoop(combined, model_geometries, i) ==
    CHOOSE done \in
      {IF i >= Len(model_geometries) THEN all
       ELSE LET geometry == model_geometries[i + 1]
                shader_index == geometry.shader_index
                vertices == DictGetList(all.vertices, shader_index)
                indices == DictGetList(all.indices, shader_index)
                index_data ==
                    IF i > 0
                    THEN [k \in 1..Len(geometry.index_data) |->
                            geometry.index_data[k] + Len(vertices)]
                    ELSE geometry.index_data
            IN  ModelGeometriesLoop(
                  [vertices |-> DictPut(all.vertices, shader_index,
                                        vertices \o geometry.vertex_data),
                   indices |-> DictPut(all.indices, shader_index,
                                       indices \o index_data)],
                  model_geometries, i + 1) : all \in {combined}} : TRUE

\* the loop over the models of one LOD level
RECURSIVE ModelsGroupLoop(_, _, _)
ModelsGroupLoop(combined, models_group, n) ==
    CHOOSE done \in
      {IF n > Len(models_group) THEN all
       ELSE ModelsGroupLoop(
              ModelGeometriesLoop(all, models_group[n].geometries, 0),
              models_group, n + 1) : all \in {combined}} : TRUE

\* FragmentCWXMLConverter.get_all_vertices_indices for one LOD level
get_all_vertices_indices(models_group) ==
    ModelsGroupLoop([vertices |-> EmptyDict, indices |-> EmptyDict],
                    models_group, 1)

\* --------------------------------------------- combined geometry spec
MaxFragModels == 2   \* drawable models of one LOD level
MaxModelGeoms == 2   \* geometries of one drawable model

\* geometry g of model m: its own vertices and indices that name each of
\* them once, in order
ModelGeometry(m, g, shader_index, nverts) ==
    [shader_index |-> shader_index,
     vertex_data |-> [v \in 1..nverts |-> <<m, g, v>>],
     index_data |-> [v \in 1..nverts |-> v - 1]]

InitCombine ==
    /\ op = "input"
    /\ \E nm \in 1..MaxFragModels :
         \E ng \in [1..nm -> 1..MaxModelGeoms] :
            \E shader \in [1..nm -> [1..MaxModelGeoms -> ShaderIndices]],
               nverts \in [1..nm -> [1..MaxModelGeoms -> 1..MaxVerts]] :
               /\ \A m \in 1..nm : \A g \in (ng[m] + 1)..MaxModelGeoms :
                     shader[m][g] = 0 /\ nverts[m][g] = 1
               /\ cwxml = [m \in 1..nm |->
                             [geometries |->
                                [g \in 1..ng[m] |->
                                   ModelGeometry(m, g, shader[m][g],
                                                 nverts[m][g])]]]
    /\ objects = <<>>
    /\ reports = <<>>
    /\ exception = NoException
    /\ files = <<>>
    /\ returned = <<>>
    /\ IdleGeometry

\* FragmentCWXMLConverter.get_all_vertices_indices
GetAllVerticesIndices ==
    /\ op = "input"
    /\ op' = "get_all_vertices_indices"
    /\ returned' = get_all_vertices_indices(cwxml)
    /\ UNCHANGED <<cwxml, objects, reports, exception, files>>
    /\ UNCHANGED geometry_vars

NextCombine == GetAllVerticesIndices

SpecCombine == InitCombine /\ [][NextCombine]_vars

\* ------------------------------------- create_drawable_geometry: weights
\* obj.vertex_groups.new(name=...) for every name: the new groups go after
\* the groups the object has; a group remembers the bone index it was made
\* for (Blender adds a suffix to a name the object has already)
NewVertexGroups(obj_groups, gd, names) ==
    obj_groups \o [n \in 1..Len(names) |->
                     [name |-> names[n],
                      bone_index |-> gd.vertex_groups[n].k,
                      weights |-> <<>>]]

\* GeometryData.set_geometry_weights: the weights under key number i go to
\* obj.vertex_groups[i]; each weight remembers the key it was recorded under
set_geometry_weights(obj_groups, gd, lod) ==
    [g \in 1..Len(obj_groups) |->
       IF g <= Len(gd.vertex_groups)
       THEN [obj_groups[g] EXCEPT !.weights =
               @ \o [w \in 1..Len(gd.vertex_groups[g].v) |->
                       [lod |-> lod,
                        bone_index |-> gd.vertex_groups[g].k,
                        vertex |-> gd.vertex_groups[g].v[w]]]]
       ELSE obj_groups[g]]

\* the loop of create_drawable_geometry over geometry_data_by_lod: the
\* vertex groups of the object geom
RECURSIVE create_drawable_geometry(_, _, _)
create_drawable_geometry(geometry_data_by_lod, bone_list, n) ==
    IF n = 0 THEN <<>>
    ELSE CHOOSE done \in
           {set_geometry_weights(
              NewVertexGroups(obj_groups, geometry_data_by_lod[n],
                              create_vertex_groups(geometry_data_by_lod[n],
                                                   bone_list, <<>>)),
              geometry_data_by_lod[n], n) :
              obj_groups \in {create_drawable_geometry(geometry_data_by_lod,
                                                       bone_list, n - 1)}} :
           TRUE

\* ------------------------------------------------- LOD weights spec
MaxGeomLods == 2      \* LODs of one object
MaxWeightedBones == 2 \* bone indices with weights in one LOD
MaxWeightBone == 2    \* largest raw bone index

\* the bone indices of one LOD in the order its vertices first name them
BoneOrders ==
    {order \in UNION {[1..n -> 0..MaxWeightBone] : n \in 0..MaxWeightedBones} :
       \A a, b \in 1..Len(order) : order[a] = order[b] => a = b}

\* the GeometryData of a LOD whose vertex v carries the bone order[v]
WeightedGeometryData(order) ==
    [EmptyGeometryData EXCEPT !.vertex_groups =
        [v \in 1..Len(order) |->
           [k |-> order[v], v |-> <<<<v - 1, 1>>>>]]]

InitLodWeights ==
    /\ op = "input"
    /\ \E nl \in 1..MaxGeomLods, nb \in 0..(MaxWeightBone + 1) :
         \E order \in [1..nl -> BoneOrders] :
            cwxml = [bones |-> ChainSkeleton(nb),
                     geometry_data_by_lod |->
                         [l \in 1..nl |-> WeightedGeometryData(order[l])]]
    /\ objects = <<>>
    /\ reports = <<>>
    /\ exception = NoException
    /\ files = <<>>
    /\ returned = <<>>
    /\ IdleGeometry

\* create_drawable_geometry(name, geometry_data_by_lod, materials, bones)
CreateDrawableGeometry ==
    /\ op = "input"
    /\ op' = "create_drawable_geometry"
    /\ objects' = create_drawable_geometry(cwxml.geometry_data_by_lod,
                                           cwxml.bones,
                                           Len(cwxml.geometry_data_by_lod))
    /\ UNCHANGED <<cwxml, reports, exception, files, returned>>
    /\ UNCHANGED geometry_vars

NextLodWeights == CreateDrawableGeometry

SpecLodWeights == InitLodWeights /\ [][NextLodWeights]_vars

\* ------------------------------- get_root_bone_parent_index, step by step
\* the test of the while loop, taken at bones[i] with parents above 1 only
root_walk_goes_on_above_one(bone_list, i) == bone_list[i + 1].parent_index > 1

\* the test of the while loop: bones[i].parent_index > 0
root_walk_goes_on(bone_list, i) == bone_list[i + 1].parent_index > 0

\* the body of the while loop: i = bones[i].parent_index
root_walk_step(bone_list, i) == bone_list[i + 1].parent_index

\* ------------------------------------------------------ root walk spec
MaxWalkBones == 4   \* bones of the skeleton

\* skeletons in which every bone's parent_index is -1 or smaller than the
\* bone's own index
WalkSkeletons ==
    UNION {{[b \in 1..n |-> [name |-> BoneName(b - 1),
                             parent_index |-> p[b]]] :
              p \in {q \in [1..n -> (0 - 1)..(n - 2)] :
                       \A b \in 1..n : q[b] < b - 1}} :
           n \in 1..MaxWalkBones}

\* the call has run `i = bone_index`; returned holds i
InitRootWalk ==
    /\ op = "while"
    /\ \E bone_list \in WalkSkeletons :
         \E bone_index \in 0..(Len(bone_list) - 1) :
            /\ cwxml = [bones |-> bone_list, bone_index |-> bone_index]
            /\ returned = bone_index
    /\ objects = <<>>
    /\ reports = <<>>
    /\ exception = NoException
    /\ files = <<>>
    /\ IdleGeometry

\* one round of the while loop
RootWalkStep ==
    /\ op = "while"
    /\ root_walk_goes_on(cwxml.bones, returned)
    /\ returned' = root_walk_step(cwxml.bones, returned)
    /\ UNCHANGED <<op, cwxml, objects, reports, exception, files>>
    /\ UNCHANGED geometry_vars

\* the test fails: return i
RootWalkReturn ==
    /\ op = "while"
    /\ ~root_walk_goes_on(cwxml.bones, returned)
    /\ op' = "return"
    /\ UNCHANGED <<cwxml, returned, objects, reports, exception, files>>
    /\ UNCHANGED geometry_vars

NextRootWalk == RootWalkStep \/ RootWalkReturn

\* the interpreter goes on running the call
SpecRootWalk ==
    InitRootWalk /\ [][NextRootWalk]_vars /\ WF_vars(NextRootWalk)

\* ------------------------------------------------- claims on the join
Joined == op = "join_geometries"

NumGeoms == Len(geometries)

Positions(j) ==
    [l \in 1..Len(geometries[j].vertex_buffer) |->
        geometries[j].vertex_buffer[l].position]

\* Output index of the vertex with position p, 0-based.
VertexIndexOf(p) ==
    (CHOOSE n \in 1..Len(geom_data.vertices) : geom_data.vertices[n] = p) - 1

\* C1: in the GeometryData returned by join_geometries every index of
\* every face is below len(vertices), and material_indices has one entry
\* per face.
C1_IndexIntegrity ==
    Joined =>
        /\ \A f \in 1..Len(geom_data.faces) :
             \A m \in 1..Len(geom_data.faces[f]) :
                geom_data.faces[f][m] < Len(geom_data.vertices)
        /\ Len(geom_data.material_indices) = Len(geom_data.faces)

\* Two blocks or more were joined and some face was moved past the first
\* block's vertices.
C1_Witness ==
    /\ Joined
    /\ NumGeoms >= 2
    /\ \E f \in 1..Len(geom_data.faces) :
         /\ Len(geom_data.faces[f]) = 3
         /\ geom_data.faces[f][1] >= Len(geometries[1].vertex_buffer)

\* The output vertex at 0-based index v carries the position and the bone
\* weights of the raw vertex.
CarriesVertex(v, raw) ==
    /\ v < Len(geom_data.vertices)
    /\ geom_data.vertices[v + 1] = raw.position
    /\ \A s \in 1..Len(raw.blend) :
         ~(raw.blend[s].w = 0 /\ raw.blend[s].i = 0) =>
            /\ DictHas(geom_data.vertex_groups, raw.blend[s].i)
            /\ \E n \in 1..Len(DictGet(geom_data.vertex_groups, raw.blend[s].i)) :
                 DictGet(geom_data.vertex_groups, raw.blend[s].i)[n]
                    = <<v, <<raw.blend[s].w, 255>>>>

\* The triangles of block j: the full triples of its index buffer.
Triangles(j) ==
    [t \in 1..(Len(geometries[j].index_buffer) \div 3) |->
        SubSeq(geometries[j].index_buffer, 3 * t - 2, 3 * t)]

\* C2: for every input block and every triangle of it, the output has a
\* face whose three indices point at output vertices carrying the
\* attributes of the triangle's three block vertices, with the block's
\* shader_index as its material index.
C2_Correspondence ==
    Joined =>
        \A j \in 1..NumGeoms :
          \A t \in 1..Len(Triangles(j)) :
            \E f \in 1..Len(geom_data.faces) :
              /\ Len(geom_data.faces[f]) = 3
              /\ f <= Len(geom_data.material_indices)
              /\ geom_data.material_indices[f] = geometries[j].shader_index
              /\ \A m \in 1..3 :
                   CarriesVertex(geom_data.faces[f][m],
                        geometries[j].vertex_buffer[Triangles(j)[t][m] + 1])

\* Number of vertices of the blocks listed in order before place r.
RECURSIVE VertsBefore(_, _)
VertsBefore(order, r) ==
    IF r <= 1 THEN 0
    ELSE VertsBefore(order, r - 1)
            + Len(geometries[order[r - 1]].vertex_buffer)

\* The vertices, and the flat face indices, of the blocks concatenated in
\* the given order of block positions, each block's indices moved by the
\* number of vertices placed before it.
VerticesInOrder(order) == Concat([r \in 1..Len(order) |-> Positions(order[r])])

IndicesInOrder(order) ==
    Concat([r \in 1..Len(order) |->
        [n \in 1..Len(geometries[order[r]].index_buffer) |->
            geometries[order[r]].index_buffer[n] + VertsBefore(order, r)]])

InputOrder == [j \in 1..NumGeoms |-> j]

\* C3 as stated: the vertices and faces are concatenated in the order of
\* the input list, whatever shader indices the blocks carry.
C3_InputOrder ==
    Joined =>
        /\ geom_data.vertices = VerticesInOrder(InputOrder)
        /\ Concat(geom_data.faces) = IndicesInOrder(InputOrder)

FirstBlockWithShader(s) ==
    CHOOSE j \in 1..NumGeoms :
        /\ geometries[j].shader_index = s
        /\ \A k \in 1..(j - 1) : geometries[k].shader_index # s

\* Block j comes before block k when its shader index appears first
\* earlier in the list, or they share the shader index and j < k.
GroupedBefore(j, k) ==
    LET fj == FirstBlockWithShader(geometries[j].shader_index)
        fk == FirstBlockWithShader(geometries[k].shader_index)
    IN  fj < fk \/ (fj = fk /\ j < k)

ShaderGroupedOrder ==
    [r \in 1..NumGeoms |->
        CHOOSE j \in 1..NumGeoms :
            Cardinality({k \in 1..NumGeoms : GroupedBefore(k, j)}) = r - 1]

\* C3 (amended): the vertices and the flat face indices are concatenated
\* grouped by shader index, the shader indices in the order of their first
\* appearance in the input list and the blocks of one shader index in input
\* order; each block's indices are moved by the number of vertices placed
\* before it.
C3_ShaderGroupedOrder ==
    Joined =>
        /\ geom_data.vertices = VerticesInOrder(ShaderGroupedOrder)
        /\ Concat(geom_data.faces) = IndicesInOrder(ShaderGroupedOrder)

\* Blocks of shader indices a, b, a were joined: the third block is placed
\* before the second.
C3_Witness ==
    /\ Joined
    /\ NumGeoms >= 3
    /\ geometries[1].shader_index = geometries[3].shader_index
    /\ geometries[1].shader_index # geometries[2].shader_index
    /\ Len(geometries[3].index_buffer) >= 3
    /\ VertexIndexOf(Positions(3)[1]) < VertexIndexOf(Positions(2)[1])

\* C10: every triangle produced by split_indices and appended to a
\* GeometryData (or to the polygons of a drawable model) has 3 indices;
\* an index list whose length is no multiple of 3 yields no short one.
C10_OnlyFullTriangles ==
    /\ Joined =>
         \A f \in 1..Len(geom_data.faces) : Len(geom_data.faces[f]) = 3
    /\ op = "get_vertices_polygons" =>
         \A f \in 1..Len(model_mesh.polygons) : Len(model_mesh.polygons[f]) = 3

\* ------------------------------------------- claims on the weight map
Decoded == op \in {"from_vertex", "add_vertex"}

\* A slot with raw weight 0 and bone index 0 is suppressed.
Suppressed(slot) == slot.w = 0 /\ slot.i = 0

\* C8: the weight map made by from_vertex holds the entry b -> w/255 for
\* every slot (b, w) that is not suppressed, and nothing else, also when
\* one bone index occupies more than one slot.
C8_EverySlotHeld ==
    Decoded =>
        /\ \A s \in 1..Len(vertex.blend) :
             ~Suppressed(vertex.blend[s]) =>
                \E n \in 1..Len(vert_attrs.weights) :
                    /\ vert_attrs.weights[n].k = vertex.blend[s].i
                    /\ vert_attrs.weights[n].v = <<vertex.blend[s].w, 255>>
        /\ \A n \in 1..Len(vert_attrs.weights) :
             \E s \in 1..Len(vertex.blend) :
                /\ ~Suppressed(vertex.blend[s])
                /\ vert_attrs.weights[n].k = vertex.blend[s].i
                /\ vert_attrs.weights[n].v = <<vertex.blend[s].w, 255>>

\* ------------------------------------- claims on bone-name resolution
Resolved == op \in {"create_vertex_groups", "geometry_create_vertex_groups"}

\* The raw bone indices the operation made groups for, in order.
ResolvedKeys ==
    IF op = "create_vertex_groups"
    THEN DictKeys(geom_data.vertex_groups)
    ELSE DictKeys(get_vertex_components(<<vertex>>).vertex_groups)

ThreeTierName(b) ==
    IF Len(bones) > 0 /\ b < Len(bones) THEN bones[b + 1].name
    ELSE IF Len(bone_ids) > 0 /\ b < Len(bone_ids) THEN <<"EXTERNAL_BONE", b>>
    ELSE <<"UNKNOWN_BONE">>

\* C9: the vertex group made for raw bone index b is named after the
\* skeleton bone when the skeleton is non-empty and b < number of bones,
\* otherwise EXTERNAL_BONE.<b> when external bone ids are present and
\* b < their number, otherwise UNKNOWN_BONE; one group per raw bone index,
\* however large the index.
C9_ThreeTierResolution ==
    Resolved =>
        /\ Len(obj_vertex_groups) = Len(ResolvedKeys)
        /\ \A n \in 1..Len(ResolvedKeys) :
             obj_vertex_groups[n] = ThreeTierName(ResolvedKeys[n])

\* Bone index 7 with a 5-bone skeleton and 10 external bone ids was
\* resolved to EXTERNAL_BONE.7.
C9_Witness ==
    /\ op = "create_vertex_groups"
    /\ Len(bones) = 5
    /\ Len(bone_ids) = 10
    /\ \E n \in 1..Len(obj_vertex_groups) :
         /\ geom_data.vertex_groups[n].k = 7
         /\ obj_vertex_groups[n] = <<"EXTERNAL_BONE", 7>>

\* ----------------------------------------- claims on the bone-group split
Split == op = "get_split_geom_data" /\ bones # <<>>

\* The source triangles: <<j, t>> is triangle t of the block at position j.
SourceTriangles ==
    UNION {{<<j, t>> : t \in 1..(Len(geometries[j].index_buffer) \div 3)} :
           j \in 1..NumGeoms}

\* The raw vertex at corner m of a source triangle
Corner(jt, m) ==
    geometries[jt[1]].vertex_buffer[
        geometries[jt[1]].index_buffer[3 * (jt[2] - 1) + m] + 1]

TrianglePositions(jt) == [m \in 1..3 |-> Corner(jt, m).position]

\* The faces of the groups: <<n, f>> is face f of the n-th group.
GroupFaces ==
    UNION {{<<n, f>> : f \in 1..Len(geom_data_by_group[n].v.faces)} :
           n \in 1..Len(geom_data_by_group)}

\* Face nf has three indices that point at copies of the corners of jt.
ImageOf(nf, jt) ==
    LET gd   == geom_data_by_group[nf[1]].v
        face == gd.faces[nf[2]]
    IN  /\ Len(face) = 3
        /\ \A m \in 1..3 :
              /\ face[m] < Len(gd.vertices)
              /\ gd.vertices[face[m] + 1] = TrianglePositions(jt)[m]

\* C4: every face of every group is the image of a source triangle, and
\* every source triangle has its image in exactly one group, once.
C4_TrianglesIntact ==
    (Split /\ ~raised) =>
        /\ \A nf \in GroupFaces : \E jt \in SourceTriangles : ImageOf(nf, jt)
        /\ \A jt \in SourceTriangles :
              Cardinality({nf \in GroupFaces : ImageOf(nf, jt)}) =
              Cardinality({other \in SourceTriangles :
                              TrianglePositions(other) = TrianglePositions(jt)})

\* The calls of get_vertex_data_by_group that returned
ReturnedCalls == {c \in 1..Len(group_calls) : ~group_calls[c].raised}

\* The source indices the call assigned to group_name, in order
RECURSIVE AssignedTo(_, _, _)
AssignedTo(call, group_name, n) ==
    IF n > Len(call.indices) THEN <<>>
    ELSE (IF call.names[n] = group_name THEN <<call.indices[n]>> ELSE <<>>)
         \o AssignedTo(call, group_name, n + 1)

\* xs without the later occurrences of an element
RECURSIVE FirstReferences(_)
FirstReferences(xs) ==
    IF xs = <<>> THEN <<>>
    ELSE LET front == FirstReferences(SubSeq(xs, 1, Len(xs) - 1))
         IN  IF SeqHas(front, xs[Len(xs)]) THEN front
             ELSE Append(front, xs[Len(xs)])

GroupNames(call) == {call.names[n] : n \in 1..Len(call.names)}

\* C5: in every call every group has a vertex list of its own that holds
\* one copy per distinct source index assigned to the group, in order of
\* first reference, so no longer than the group's index list; every group
\* index points at the copy of the source vertex it referenced; so a source
\* vertex referenced from a group is in that group's list.
C5_DedupPerGroup ==
    \A c \in ReturnedCalls :
        LET call == group_calls[c]
        IN  \A g \in GroupNames(call) :
              LET refs  == AssignedTo(call, g, 1)
                  verts == DictGetList(call.verts_by_group, g)
                  inds  == DictGetList(call.ind_by_group, g)
              IN  /\ DictHas(call.verts_by_group, g)
                  /\ DictHas(call.ind_by_group, g)
                  /\ Len(inds) = Len(refs)
                  /\ Len(verts) <= Len(inds)
                  /\ verts = [n \in 1..Len(FirstReferences(refs)) |->
                                from_vertex(call.vertices[
                                    FirstReferences(refs)[n] + 1])]
                  /\ \A n \in 1..Len(inds) :
                        /\ inds[n] >= 0 /\ inds[n] < Len(verts)
                        /\ verts[inds[n] + 1] =
                              from_vertex(call.vertices[refs[n] + 1])
                  /\ \A n \in 1..Len(refs) :
                        SeqHas(verts, from_vertex(call.vertices[refs[n] + 1]))

\* A call that made two groups, one of them with a vertex referenced twice.
C5_Witness ==
    \E c \in ReturnedCalls :
        LET call == group_calls[c]
        IN  /\ Len(call.verts_by_group) >= 2
            /\ \E n \in 1..Len(call.verts_by_group) :
                  Len(call.verts_by_group[n].v) <
                  Len(DictGet(call.ind_by_group, call.verts_by_group[n].k))

\* The bones that weight a corner of the source triangle
TriangleBones(jt) ==
    UNION {{from_vertex(Corner(jt, m)).weights[w].k :
                w \in 1..Len(from_vertex(Corner(jt, m)).weights)} :
           m \in 1..3}

\* The bones that share a face with other bones
SharingBones ==
    {b \in 0..(Len(bones) - 1) :
        \E jt \in SourceTriangles :
            b \in TriangleBones(jt) /\ TriangleBones(jt) # {b}}

\* b and the bones it shares faces with
RelatedBones(b) ==
    UNION {TriangleBones(jt) : jt \in {t \in SourceTriangles :
                                          b \in TriangleBones(t)}}

RECURSIVE AncestorsOrSelf(_)
AncestorsOrSelf(b) ==
    IF b < 0 THEN {} ELSE {b} \cup AncestorsOrSelf(bones[b + 1].parent_index)

\* The bones directly under the root that are ancestor-or-self of all of bs
CommonRootChildren(bs) ==
    {a \in 0..(Len(bones) - 1) :
        /\ bones[a + 1].parent_index = 0
        /\ \A b \in bs : a \in AncestorsOrSelf(b)}

GroupParent(b) ==
    IF CommonRootChildren(RelatedBones(b)) # {}
    THEN CHOOSE a \in CommonRootChildren(RelatedBones(b)) : TRUE
    ELSE 0

\* C6: every bone that shares a face with other bones has an entry in the
\* group parent map: the bone directly under the root that is ancestor-or-
\* self of it and of all the bones it shares faces with, else the root.
C6_GroupParent ==
    Split =>
        \A b \in SharingBones :
            /\ DictHas(group_parent_map, b)
            /\ DictGet(group_parent_map, b) = GroupParent(b)

\* The group key of a raw vertex as stated: the mapped parent of the first
\* weighted bone with an entry in the map, else the first weighted bone.
GroupKey(v) ==
    LET keys   == DictKeys(from_vertex(v).weights)
        mapped == {s \in 1..Len(keys) : DictHas(group_parent_map, keys[s])}
    IN  IF mapped # {}
        THEN {bones[DictGet(group_parent_map,
                  keys[CHOOSE s \in mapped : \A r \in mapped : s <= r]) + 1].name}
        ELSE IF keys # <<>> THEN {bones[keys[1] + 1].name}
        ELSE {}

\* C7: every vertex that an index of a skinned geometry references gets
\* its group key.
C7_GroupKey ==
    Split =>
        \A c \in 1..Len(group_calls) :
            \A n \in 1..Len(group_calls[c].indices) :
                /\ n <= Len(group_calls[c].names)
                /\ group_calls[c].names[n] \in
                      GroupKey(group_calls[c].vertices[
                                   group_calls[c].indices[n] + 1])

\* ------------------------------------------- claims on the physics LOD
LodImported == op = "PhysicsLod.create_bpy_object" /\ cwxml.has_bounds

\* positions in objects[1..n] of the objects of one type, in creation order
RECURSIVE ObjectsOfType(_, _)
ObjectsOfType(sollum_type, n) ==
    IF n = 0 THEN <<>>
    ELSE ObjectsOfType(sollum_type, n - 1)
         \o (IF objects[n].sollum_type = sollum_type THEN <<n>> ELSE <<>>)

LodObjects == ObjectsOfType("FRAGLOD", Len(objects))
GroupObjects == ObjectsOfType("FRAGGROUP", Len(objects))
ChildObjects == ObjectsOfType("FRAGCHILD", Len(objects))

Reported(level, message) ==
    \E r \in 1..Len(reports) : reports[r] = <<level, message>>

\* group k of the list (k counted from 1) names an earlier group as parent
HasEarlierParent(k) ==
    LET parent_index == cwxml.groups[k].parent_index
    IN  parent_index # ROOT_PARENT_INDEX
        /\ 0 <= parent_index /\ parent_index < k - 1

ExpectedGroupParent(k) ==
    IF HasEarlierParent(k)
    THEN Ref(GroupObjects[cwxml.groups[k].parent_index + 1])
    ELSE Ref(LodObjects[1])

\* C11: importing a physics LOD never fails on its group list; every group
\* record yields one group object whose parent is the LOD root when its
\* parent_index is 255, the group at position parent_index when that group
\* was created earlier, and otherwise the LOD root with a warning.
C11_GroupParents ==
    LodImported =>
      /\ exception = NoException
      /\ Len(LodObjects) = 1
      /\ Len(GroupObjects) = Len(cwxml.groups)
      /\ \A k \in 1..Len(cwxml.groups) :
           /\ objects[GroupObjects[k]].parent = ExpectedGroupParent(k)
           /\ (cwxml.groups[k].parent_index # ROOT_PARENT_INDEX
               /\ ~HasEarlierParent(k))
              => Reported("WARNING", <<"group parent not found",
                                       cwxml.groups[k].name>>)

\* child c of the list (c counted from 1) refers to a group of the list
RefersToGroup(c) ==
    /\ 0 <= cwxml.children[c].group_index
    /\ cwxml.children[c].group_index < Len(cwxml.groups)

ObjectsOfChild(c) ==
    {n \in 1..Len(objects) : /\ objects[n].sollum_type = "FRAGCHILD"
                             /\ objects[n].name = <<"child", c - 1>>}

\* C12: importing a physics LOD builds every group, creates one object for
\* every child whose group_index refers to a group, parented under that
\* group, and for a child with a group_index off the list creates nothing
\* and reports a warning, the other children being processed all the same.
C12_ChildrenUnderGroups ==
    LodImported =>
      /\ Len(GroupObjects) = Len(cwxml.groups)
      /\ \A c \in 1..Len(cwxml.children) :
           IF RefersToGroup(c)
           THEN /\ Cardinality(ObjectsOfChild(c)) = 1
                /\ \A n \in ObjectsOfChild(c) :
                     objects[n].parent
                       = Ref(GroupObjects[cwxml.children[c].group_index + 1])
           ELSE /\ ObjectsOfChild(c) = {}
                /\ Reported("WARNING", <<"fragment group not found",
                                         cwxml.children[c].group_index>>)

\* -------------------------------------- claims on the child transforms
\* a call for a child index that has a stored transform
TransformComputed ==
    /\ op = "input"
    /\ op' \in {"get_child_transform", "get_child_transforms"}
    /\ cwxml.child_index < Len(cwxml.transforms)

StoredTransform == cwxml.transforms[cwxml.child_index + 1]

\* the translation of the offset: row 3, columns 0, 1, 2
OffsetAt(r, c) ==
    IF r = 4 /\ c < 4 THEN cwxml.position_offset[c] ELSE 0

\* C13 as stated: the transform computed for a physics child is the
\* stored matrix with position_offset subtracted from row 3, columns 0, 1
\* and 2, then transposed.
C13_OffsetSubtracted ==
    [][TransformComputed =>
         \A r \in 1..4, c \in 1..4 :
            returned'[c][r] = StoredTransform[r][c] - OffsetAt(r, c)]_vars

\* C13 amended: the transform computed for a physics child that has a
\* stored transform is the stored matrix, as it is when the call is made,
\* with position_offset added to row 3, columns 0, 1 and 2, then
\* transposed; every other entry only changes place.
C13_OffsetAdded ==
    [][TransformComputed =>
         \A r \in 1..4, c \in 1..4 :
            returned'[c][r] = StoredTransform[r][c] + OffsetAt(r, c)]_vars

C13_Witness ==
    /\ op = "get_child_transform"
    /\ cwxml.child_index < Len(cwxml.transforms)
    /\ cwxml.position_offset = <<1, 0 - 1, 1>>
    /\ returned[1][4] = StoredTransform[4][1]
    /\ returned[4][1] = StoredTransform[1][4]
    /\ returned # StoredTransform

\* ---------------------------------------- claims on the fragment import
FragmentImported == op \in {"Fragment.create_bpy_object", "create_fragment_obj"}

FragmentObjects == ObjectsOfType("FRAGMENT", Len(objects))

LastStage ==
    IF op = "create_fragment_obj" THEN <<"windows">>
    ELSE <<"lod", Len(cwxml.lods) - 1>>

RanToTheEnd ==
    \E s \in 1..Len(returned.stages) : returned.stages[s] = LastStage

\* C14: a fragment whose LOD1 has no archetype bounds is imported without
\* an exception reaching the caller: a message is reported, the later stages
\* of the import run and the fragment object is there.
C14_MissingBoundsSkipped ==
    (FragmentImported /\ ~cwxml.lods[1].has_bounds) =>
      /\ exception = NoException
      /\ reports # <<>>
      /\ RanToTheEnd
      /\ Len(FragmentObjects) = 1

HasPhysicsGroups == cwxml.lods[1].groups # <<>>

\* C15: the import of a fragment whose LOD1 has physics groups and an empty bone
\* list ends in an error instead of running to its end.
C15_NoSkeletonIsAnError ==
    (FragmentImported /\ HasPhysicsGroups /\ cwxml.bones = <<>>) =>
      /\ exception # NoException
      /\ ~RanToTheEnd

WindowObjects(w) ==
    {n \in 1..Len(objects) : /\ objects[n].sollum_type = "FRAGVEHICLEWINDOW"
                             /\ objects[n].name = <<"window", w - 1>>}

\* window w (counted from 1) refers to a group of some populated LOD
WindowHasGroup(w) ==
    \E l \in 1..Len(cwxml.lods) :
       cwxml.vehicle_glass_windows[w].item_id < Len(cwxml.lods[l].groups)

\* C16: the converter's import of a fragment with 1 to 3 populated LODs
\* makes exactly one object per vehicle glass window, parented to the group
\* object built for position item_id, and makes no object but reports a
\* warning for a window whose item_id refers to no group.
C16_OneWindowPerItem ==
    op = "Fragment.create_bpy_object" =>
      \A w \in 1..Len(cwxml.vehicle_glass_windows) :
         IF WindowHasGroup(w)
         THEN /\ Cardinality(WindowObjects(w)) = 1
              /\ \A n \in WindowObjects(w) :
                   /\ objects[n].parent # None
                   /\ Deref(objects, objects[n].parent).sollum_type
                        = "FRAGGROUP"
                   /\ Deref(objects, objects[n].parent).name
                        = <<"group", cwxml.vehicle_glass_windows[w].item_id>>
         ELSE /\ WindowObjects(w) = {}
              /\ \E r \in 1..Len(reports) : reports[r][1] = "WARNING"

\* ------------------------------------------------ claims on the window quad
VertsComputed ==
    /\ op = "input"
    /\ op' \in {"get_verts", "calculate_window_verts"}

\* the transposed projection matrix, its entry [3][3] replaced by 1
TransposedProjection ==
    [r \in 1..4 |-> [c \in 1..4 |->
        IF r = 4 /\ c = 4 THEN 1 ELSE cwxml.projection_matrix[c][r]]]

\* vertex k (counted from 1) is carried by the transposed projection
\* matrix to the point (x2 / 2, y, 0)
ProjectsTo(vert, x2, y) ==
    LET p == multiW(TransposedProjection, vert)
    IN  /\ p[4] # 0
        /\ 2 * p[1] = x2 * p[4]
        /\ p[2] = y * p[4]
        /\ p[3] = 0

\* C17 as stated: the four vertices are the points that the inverse of the
\* transposed projection matrix makes of (0,0), (0,h), (w,h), (w,0).
C17_FullWidthCorners ==
    [][VertsComputed =>
         /\ Len(returned') = 4
         /\ ProjectsTo(returned'[1], 0, 0)
         /\ ProjectsTo(returned'[2], 0, cwxml.height)
         /\ ProjectsTo(returned'[3], 2 * cwxml.width, cwxml.height)
         /\ ProjectsTo(returned'[4], 2 * cwxml.width, 0)]_vars

\* C17 amended: the four vertices are the points that the inverse of the
\* transposed projection matrix, entry [3][3] first set to 1, makes of
\* (0,0), (0,h), (w/2,h), (w/2,0), in that order.
C17_HalfWidthCorners ==
    [][VertsComputed =>
         /\ Len(returned') = 4
         /\ ProjectsTo(returned'[1], 0, 0)
         /\ ProjectsTo(returned'[2], 0, cwxml.height)
         /\ ProjectsTo(returned'[3], cwxml.width, cwxml.height)
         /\ ProjectsTo(returned'[4], cwxml.width, 0)]_vars

C17_Witness ==
    /\ op = "get_verts"
    /\ cwxml.width = 3
    /\ cwxml.height = 2
    /\ cwxml.projection_matrix[1] = <<1, 1, 0, 1>>
    /\ returned[3] # returned[4]
    /\ returned[1] # <<0, 0, 0, 2>>

\* ------------------------------------------ claims on the bones transforms
\* the matrix the bone of child c overrides its placement with
OverrideMatrix(c) ==
    LET bone_index == objects[c].parent_bone[1]
    IN  IF bone_index < Len(cwxml.bones_transforms)
        THEN cwxml.bones_transforms[bone_index + 1] ELSE Identity

\* C18: after apply_bones_transforms every child parented to a bone has
\* the override matrix of its bone, wherever a child without parent bone
\* stands among the children, and a child without parent bone keeps its
\* default placement; nothing is raised.
C18_EveryBoneChildPlaced ==
    op = "apply_bones_transforms" =>
      /\ exception = NoException
      /\ \A c \in 1..Len(objects) :
           IF objects[c].parent_bone = None
           THEN objects[c].matrix_basis = Identity
           ELSE objects[c].matrix_basis = OverrideMatrix(c)

\* ------------------------------------------ claims on the mesh materials
\* the shader indices the operation was given
GivenIndices ==
    IF op = "create_material" THEN {cwxml.material_indices[1]}
    ELSE {cwxml.material_indices[p] : p \in 1..Len(cwxml.material_indices)}

OffTheList(shader_index) ==
    shader_index < 0 \/ shader_index >= Len(cwxml.materials)

\* the materials of the shader indices that lie on the material list
MaterialsOnTheList ==
    {cwxml.materials[i + 1] : i \in {j \in GivenIndices : ~OffTheList(j)}}

\* C19: whichever way the mesh gets its materials, a shader index off the
\* material list raises nothing, puts no material on the mesh and is
\* reported with a warning.
C19_OffListIndexWarned ==
    op \in {"create_material", "create_materials", "create_mesh_materials"} =>
      /\ exception = NoException
      /\ {objects[1].materials[s] : s \in 1..Len(objects[1].materials)}
           = MaterialsOnTheList
      /\ \A i \in GivenIndices :
           OffTheList(i) => Reported("WARNING", <<"material not set", i>>)

\* ------------------------------------------------ claims on the yft export
Exported ==
    op \in {"BPYConverter.bpy_to_xml_file",
            "FragmentBPYConverter.bpy_to_xml_file"}

\* C20: an export call that fails leaves no file written, be it the plain
\* export or a fragment export with its _hi file.
C20_FailedExportWritesNothing ==
    (Exported /\ exception # NoException) => files = <<>>

\* ------------------------------------- claims on the exported transforms
\* the drawable models parented to the bone at position i (from 0)
ModelsOfBone(i) ==
    {c \in 1..Len(objects) :
       /\ objects[c].sollum_type = "DRAWABLE_MODEL"
       /\ objects[c].parent_bone # None
       /\ objects[c].parent_bone[2] = i}

\* C21: the export writes one matrix per bone, in bone order: entry i is
\* the matrix_basis of the drawable model parented to the bone at position
\* i and the identity when there is none, whatever the tags of the bones.
C21_TransformPerBonePosition ==
    op = "create_bone_transforms" =>
      /\ Len(returned) = Len(cwxml.bones)
      /\ \A i \in 1..Len(cwxml.bones) :
           /\ ModelsOfBone(i - 1) = {} => returned[i] = Identity
           /\ \A c \in ModelsOfBone(i - 1) :
                ModelsOfBone(i - 1) = {c} =>
                   returned[i] = objects[c].matrix_basis

\* ------------------------------------------ claims on the import stages
PhysicsTypes == {"FRAGLOD", "FRAGGROUP", "FRAGCHILD"}

\* the object at position n of the scene belongs to the physics stage
IsPhysicsObject(n) ==
    \/ objects[n].sollum_type \in PhysicsTypes
    \/ objects[n].name = <<"col">>

IsWindowObject(n) == objects[n].sollum_type = "FRAGVEHICLEWINDOW"

\* the scene is in creation order: the fragment object first, no physics
\* object after a window
CreatedInStageOrder ==
    /\ objects # <<>> => objects[1].sollum_type = "FRAGMENT"
    /\ \A w, p \in 1..Len(objects) :
         (IsWindowObject(w) /\ IsPhysicsObject(p)) => p < w

\* C22: a fragment import goes through its stages in the order skeleton,
\* drawable geometry, physics of every LOD, vehicle windows, each stage
\* once: it reaches the end of the windows stage, and no physics object is
\* created after a window.
C22_StagesOnceInOrder ==
    FragmentImported =>
      /\ exception = NoException
      /\ RanToTheEnd
      /\ CreatedInStageOrder

\* ------------------------------------------------ claims on the skeleton
\* bone b (counted from 1) names as parent a bone built strictly earlier
ParentBuiltEarlier(b) ==
    /\ 0 <= cwxml.bones[b].parent_index
    /\ cwxml.bones[b].parent_index < b - 1

Malformed(b) ==
    cwxml.bones[b].parent_index # 0 - 1 /\ ~ParentBuiltEarlier(b)

\* C23: create_bones raises when some bone names as parent a bone that is
\* not built strictly earlier (a later bone, the bone itself, a negative
\* index other than -1) and links no such bone to a parent; bones with
\* parent_index -1 are roots.
C23_MalformedParentRejected ==
    op = "create_bones" =>
      /\ (\E b \in 1..Len(cwxml.bones) : Malformed(b))
            => exception # NoException
      /\ \A b \in 1..Len(objects) :
           /\ Malformed(b) => objects[b].parent = None
           /\ cwxml.bones[b].parent_index = 0 - 1 => objects[b].parent = None

\* ------------------------------------------- claims on create_drawable_mesh
MeshCreated == op \in {"create_drawable_mesh", "create_drawable_mesh split"}

\* every object of the scene, in creation order
AllObjects == [n \in 1..Len(objects) |-> Ref(n)]

\* C24: create_drawable_mesh ends without error and returns the list of
\* all mesh objects it created; for a rigged drawable imported without
\* splitting that is the whole-skin mesh followed by the per-bone meshes.
C24_ReturnsAllMeshObjects ==
    MeshCreated =>
      /\ exception = NoException
      /\ returned = AllObjects

\* ------------------------------------------------ claims on the LOD slots
\* no two entries of the collection have the same type
DistinctTypes(lods) ==
    \A a, b \in 1..Len(lods) : lods[a].type = lods[b].type => a = b

HasType(lods, lod_type) == \E n \in 1..Len(lods) : lods[n].type = lod_type

\* the call changed the mesh of no entry but those of the type
OnlyMeshOfType(before, after, lod_type) ==
    /\ Len(after) = Len(before)
    /\ \A n \in 1..Len(before) :
         /\ after[n].type = before[n].type
         /\ before[n].type # lod_type => after[n].mesh = before[n].mesh
         /\ before[n].type = lod_type => after[n].mesh = cwxml'.mesh

\* C25: whatever calls are made on an object's LODLevels, no two entries
\* have the same type and there are at most 5; add_lod on a type that is
\* there adds nothing and returns None; add_empty_lods again changes
\* nothing; set_lod_mesh changes the mesh of the entry of its type only.
C25_LodSlots ==
    [][/\ DistinctTypes(objects'.lods)
       /\ Len(objects'.lods) <= 5
       /\ (op' = "add_lod" /\ HasType(objects.lods, cwxml'.lod_type)) =>
             (objects'.lods = objects.lods /\ returned' = None)
       /\ op' = "add_empty_lods" =>
             add_empty_lods(objects').lods = objects'.lods
       /\ op' = "set_lod_mesh" =>
             OnlyMeshOfType(objects.lods, objects'.lods, cwxml'.lod_type)
      ]_vars

\* all five slots are there, one of them with a mesh, and add_lod was
\* refused
C25_Witness ==
    /\ op = "add_lod"
    /\ returned = None
    /\ Len(objects.lods) = 5
    /\ \E n \in 1..5 : objects.lods[n].mesh # None

\* ---------------------------------------------- claims on the LOD export
\* C26: the export of a LOD imported without edits writes every child's
\* stored transform again, whatever the position offset of the LOD.
C26_ExportReproducesTransforms ==
    op = "exported" => returned.transforms = cwxml.transforms

\* ---------------------------------------- claims on the window materials
\* C27: a window imported with a slot index that resolves to a material is
\* exported, against the same material list, with that slot index.
C27_SlotIndexRoundTrips ==
    op = "exported" =>
      /\ exception = NoException
      /\ returned.unk_ushort_1 = <<cwxml.unk_ushort_1>>

\* --------------------------------------- claims on the combined geometry
\* the vertices of every geometry with the shader index, in the order of
\* the models and of their geometries
RECURSIVE VerticesOfShader(_, _, _)
VerticesOfShader(models_group, shader_index, n) ==
    IF n = 0 THEN <<>>
    ELSE LET model_geometries == models_group[n].geometries
             own == [g \in 1..Len(model_geometries) |->
                       IF model_geometries[g].shader_index = shader_index
                       THEN model_geometries[g].vertex_data ELSE <<>>]
         IN  VerticesOfShader(models_group, shader_index, n - 1)
               \o Concat(own)

\* C28: in the combined data of a shader index, index k points at vertex k
\* of the geometries that carry the shader index: every index still points
\* at the vertex it pointed at in its own geometry.
C28_CombinedIndicesPointAtTheirVertex ==
    op = "get_all_vertices_indices" =>
      \A s \in ShaderIndices :
         LET vertices == DictGetList(returned.vertices, s)
             indices == DictGetList(returned.indices, s)
         IN  /\ vertices = VerticesOfShader(cwxml, s, Len(cwxml))
             /\ Len(indices) = Len(vertices)
             /\ \A k \in 1..Len(indices) : indices[k] = k - 1

\* ------------------------------------------- claims on the LOD weights
\* the name create_vertex_groups resolves for a raw bone index
ResolvedName(bone_index) ==
    IF cwxml.bones # <<>> /\ bone_index < Len(cwxml.bones)
    THEN cwxml.bones[bone_index + 1].name ELSE UnknownBoneName

\* C29: after create_drawable_geometry every weight of every LOD is in a
\* vertex group that was made for the bone index the weight was recorded
\* under and carries the name resolved for that bone index.
C29_WeightsInTheirBoneGroup ==
    op = "create_drawable_geometry" =>
      \A g \in 1..Len(objects) :
         \A w \in 1..Len(objects[g].weights) :
            /\ objects[g].weights[w].bone_index = objects[g].bone_index
            /\ objects[g].name = ResolvedName(objects[g].weights[w].bone_index)

\* ------------------------------------------------ claims on the root walk
\* bone a is bone b or one of the bones above it
RECURSIVE IsAncestorOrSelf(_, _, _)
IsAncestorOrSelf(bone_list, a, b) ==
    \/ a = b
    \/ /\ bone_list[b + 1].parent_index >= 0
       /\ IsAncestorOrSelf(bone_list, a, bone_list[b + 1].parent_index)

\* C30: for every bone of a skeleton whose parents all come before their
\* children, get_root_bone_parent_index returns, and what it returns is
\* the bone or a bone above it whose parent_index is at most 0.
C30_RootWalkReturns ==
    <>(/\ op = "return"
       /\ IsAncestorOrSelf(cwxml.bones, returned, cwxml.bone_index)
       /\ cwxml.bones[returned + 1].parent_index <= 0
       /\ returned = get_root_bone_parent_index(cwxml.bone_index, cwxml.bones))

\* the walk has returned a bone two levels above the one it started from
C30_Witness ==
    /\ op = "return"
    /\ cwxml.bones[cwxml.bone_index + 1].parent_index > 0
    /\ cwxml.bones[cwxml.bones[cwxml.bone_index + 1].parent_index + 1]
         .parent_index > 0
    /\ returned # cwxml.bone_index

=============================================================================
